---- MODULE Spec2Model ----
(***************************************************************************)
(* NexusFlow reconciliation and aggregation pipeline                        *)
(* (src/src/etl_pipelines.py, src/src/data_processing_utils.py,            *)
(* src/src/etl_runner.py).                                                 *)
(*                                                                         *)
(* Scalars of a pandas cell are tagged records: Null (None / NaN / pd.NA), *)
(* Str(s) with s a sequence of one-character strings, Num(n) an integer.   *)
(* A DataFrame is a record [cols |-> set of column names,                  *)
(* rows |-> sequence of rows]; a row is a function from column names to    *)
(* scalars (Null for a cell that is missing).                              *)
(***************************************************************************)
EXTENDS Integers, Sequences, FiniteSets, TLC

Null == [k |-> "null"]
Str(s) == [k |-> "str", s |-> s]
Num(n) == [k |-> "num", n |-> n]

IsNull(v) == v.k = "null"
IsStr(v) == v.k = "str"
IsNum(v) == v.k = "num"

(* A float that is infinite, a bool, and the outcome of a call that raised. *)
Inf == [k |-> "inf"]
Bool(b) == [k |-> "bool", b |-> b]
Raised(exception) == [k |-> "raise", exception |-> exception]

IsInf(v) == v.k = "inf"
IsRaised(v) == v.k = "raise"

(***************************************************************************)
(* Characters.  NP stands for one character outside \x20-\x7E that is not  *)
(* whitespace (such as U+0001 or a non-ASCII letter), TAB for "\t".        *)
(***************************************************************************)
NP == "<NP>"
TAB == "<TAB>"
DigitChars == <<"0", "1", "2", "3", "4", "5", "6", "7", "8", "9">>
LowerChars == <<"a", "b", "c", "d", "e", "f", "g", "h", "i", "j", "k", "l", "m",
                "n", "o", "p", "q", "r", "s", "t", "u", "v", "w", "x", "y", "z">>
UpperChars == <<"A", "B", "C", "D", "E", "F", "G", "H", "I", "J", "K", "L", "M",
                "N", "O", "P", "Q", "R", "S", "T", "U", "V", "W", "X", "Y", "Z">>

IsDigitChar(c) == \E i \in 1..10 : DigitChars[i] = c
DigitVal(c) == (CHOOSE i \in 1..10 : DigitChars[i] = c) - 1
IsSpaceChar(c) == c \in {" ", TAB}
IsPrintableChar(c) == c # NP

upper_char(c) ==
    IF \E i \in 1..26 : LowerChars[i] = c
    THEN UpperChars[CHOOSE i \in 1..26 : LowerChars[i] = c]
    ELSE c

lower_char(c) ==
    IF \E i \in 1..26 : UpperChars[i] = c
    THEN LowerChars[CHOOSE i \in 1..26 : UpperChars[i] = c]
    ELSE c

str_upper(s) == [i \in 1..Len(s) |-> upper_char(s[i])]
str_lower(s) == [i \in 1..Len(s) |-> lower_char(s[i])]

(* str.title(): a letter after a character that is no letter is made       *)
(* upper case, every other letter lower case.                              *)
IsLetter(c) == upper_char(c) # c \/ lower_char(c) # c

RECURSIVE title_from(_, _)
title_from(s, after_letter) ==
    IF s = <<>> THEN <<>>
    ELSE <<IF after_letter THEN lower_char(Head(s)) ELSE upper_char(Head(s))>>
         \o title_from(Tail(s), IsLetter(Head(s)))

str_title(s) == title_from(s, FALSE)

(* Code point order of the characters used, for sorting strings. *)
CharOrder == <<TAB, " ", "#", "$", "%", "+", ",", "-", ".", "/">> \o DigitChars
             \o <<"@">> \o UpperChars
             \o <<"_">> \o LowerChars \o <<NP>>
CharCode(c) == CHOOSE i \in 1..Len(CharOrder) : CharOrder[i] = c

(* str.strip(): leading and trailing whitespace removed. *)
RECURSIVE lstrip(_)
lstrip(s) == IF s # <<>> /\ IsSpaceChar(Head(s)) THEN lstrip(Tail(s)) ELSE s

RECURSIVE rstrip(_)
rstrip(s) ==
    IF s # <<>> /\ IsSpaceChar(s[Len(s)]) THEN rstrip(SubSeq(s, 1, Len(s) - 1)) ELSE s

strip(s) == rstrip(lstrip(s))

(* ' '.join(s.split()): whitespace runs collapsed to one space, ends trimmed. *)
RECURSIVE collapse_ws(_)
collapse_ws(s) ==
    IF s = <<>> THEN <<>>
    ELSE IF IsSpaceChar(Head(s))
         THEN IF Tail(s) # <<>> /\ IsSpaceChar(Head(Tail(s)))
              THEN collapse_ws(Tail(s))
              ELSE <<" ">> \o collapse_ws(Tail(s))
         ELSE <<Head(s)>> \o collapse_ws(Tail(s))

normalize_ws(s) == strip(collapse_ws(s))

(* re.sub(r'[^\x20-\x7E\n\r\t]', '', s) *)
remove_non_printable(s) == SelectSeq(s, LAMBDA c : IsPrintableChar(c) \/ c = TAB)

isdigit(s) == s # <<>> /\ \A i \in 1..Len(s) : IsDigitChar(s[i])

startswith(s, p) == Len(s) >= Len(p) /\ SubSeq(s, 1, Len(p)) = p

(* str.replace(old, new): every occurrence, left to right. *)
RECURSIVE str_replace(_, _, _)
str_replace(s, old, new) ==
    IF s = <<>> THEN <<>>
    ELSE IF startswith(s, old)
         THEN new \o str_replace(SubSeq(s, Len(old) + 1, Len(s)), old, new)
         ELSE <<Head(s)>> \o str_replace(Tail(s), old, new)

RECURSIVE nat_to_str(_)
nat_to_str(n) ==
    IF n < 10 THEN <<DigitChars[n + 1]>>
    ELSE nat_to_str(n \div 10) \o <<DigitChars[(n % 10) + 1]>>

(* str(int) *)
int_to_str(n) == IF n < 0 THEN <<"-">> \o nat_to_str(0 - n) ELSE nat_to_str(n)

RECURSIVE digits_to_nat(_)
digits_to_nat(s) ==
    IF s = <<>> THEN 0
    ELSE 10 * digits_to_nat(SubSeq(s, 1, Len(s) - 1)) + DigitVal(s[Len(s)])

RECURSIVE zeros(_)
zeros(n) == IF n <= 0 THEN <<>> ELSE <<"0">> \o zeros(n - 1)

(* str.zfill(width): zeros go after a leading sign. *)
zfill(s, width) ==
    IF Len(s) >= width THEN s
    ELSE IF s # <<>> /\ Head(s) \in {"-", "+"}
         THEN <<Head(s)>> \o zeros(width - Len(s)) \o Tail(s)
         ELSE zeros(width - Len(s)) \o s

(* str(value) of a non-null cell. *)
py_str(v) ==
    IF IsNum(v) THEN int_to_str(v.n)
    ELSE IF IsInf(v) THEN <<"i", "n", "f">>
    ELSE IF v.k = "bool" THEN (IF v.b THEN <<"T", "r", "u", "e">> ELSE <<"F", "a", "l", "s", "e">>)
    ELSE v.s

clean_string(text, case, default_if_empty) ==
    IF IsNull(text) THEN default_if_empty
    ELSE LET text_str == strip(py_str(text)) IN
         IF text_str = <<>> THEN default_if_empty
         ELSE LET cleaned == normalize_ws(remove_non_printable(text_str)) IN
              Str(CASE case = "lower" -> str_lower(cleaned)
                    [] case = "upper" -> str_upper(cleaned)
                    [] case = "title" -> str_title(cleaned)
                    [] OTHER -> cleaned)

(***************************************************************************)
(* to_numeric_safe.  Numbers of the model are integers: the inputs spell   *)
(* no '.', no '%' and no negative exponent, so float(s) succeeds exactly   *)
(* on [+-]digits with single underscores between digits, optionally        *)
(* followed by e[+]digits, and on the spellings of infinity and nan.       *)
(***************************************************************************)
NaTokens == {<<"n", "a">>, <<"n", "o", "n", "e">>, <<"n", "u", "l", "l">>,
             <<"u", "n", "k", "n", "o", "w", "n">>, <<"#", "n", "/", "a">>,
             <<"n", "a", "n">>}

RECURSIVE digit_groups_ok(_)
digit_groups_ok(s) ==
    /\ s # <<>>
    /\ IsDigitChar(Head(s))
    /\ \/ Len(s) = 1
       \/ IsDigitChar(s[2]) /\ digit_groups_ok(Tail(s))
       \/ s[2] = "_" /\ digit_groups_ok(SubSeq(s, 3, Len(s)))

py_float_ok(s) ==
    IF s # <<>> /\ Head(s) \in {"-", "+"} THEN digit_groups_ok(Tail(s))
    ELSE digit_groups_ok(s)

py_float(s) ==
    LET body == IF Head(s) \in {"-", "+"} THEN Tail(s) ELSE s
        n == digits_to_nat(SelectSeq(body, IsDigitChar))
    IN IF Head(s) = "-" THEN 0 - n ELSE n

unsigned(s) == IF s # <<>> /\ Head(s) \in {"-", "+"} THEN Tail(s) ELSE s

(* The position of the exponent mark of s, 0 when it has none. *)
exponent_at(s) ==
    IF \E p \in 1..Len(s) : s[p] \in {"e", "E"}
    THEN CHOOSE p \in 1..Len(s) : s[p] \in {"e", "E"} /\ \A q \in 1..(p - 1) : s[q] \notin {"e", "E"}
    ELSE 0

(* float(s) succeeds on a mantissa with an exponent. *)
py_float_exp_ok(s) ==
    LET body == unsigned(s)
        p == exponent_at(body)
    IN /\ p > 1 /\ p < Len(body)
       /\ digit_groups_ok(SubSeq(body, 1, p - 1))
       /\ LET e == SubSeq(body, p + 1, Len(body))
          IN digit_groups_ok(IF Head(e) = "+" THEN Tail(e) ELSE e)

mantissa_of(s) == SelectSeq(SubSeq(unsigned(s), 1, exponent_at(unsigned(s)) - 1), IsDigitChar)
exponent_of(s) ==
    digits_to_nat(SelectSeq(SubSeq(unsigned(s), exponent_at(unsigned(s)) + 1, Len(unsigned(s))),
                            IsDigitChar))

(* The largest power of ten a double holds is 10^308. *)
MaxDoubleExponent == 308

(* float(s) is inf or -inf: s spells infinity, or a number of 10^309 or    *)
(* more (the inputs spell no number between 10^308 and 10^309).            *)
py_float_is_inf(s) ==
    \/ str_lower(unsigned(s)) \in {<<"i", "n", "f">>, <<"i", "n", "f", "i", "n", "i", "t", "y">>}
    \/ /\ py_float_exp_ok(s)
       /\ digits_to_nat(mantissa_of(s)) > 0
       /\ Len(nat_to_str(digits_to_nat(mantissa_of(s)))) - 1 + exponent_of(s) > MaxDoubleExponent

py_float_is_nan(s) == str_lower(unsigned(s)) = <<"n", "a", "n">>

RECURSIVE pow10(_)
pow10(e) == IF e = 0 THEN 1 ELSE 10 * pow10(e - 1)

(* Returns Raised("OverflowError") where the code lets int(round(inf)) or  *)
(* int(inf) escape: only ValueError and TypeError are caught.              *)
to_numeric_safe(value, target_type, default_value) ==
    IF IsNull(value) THEN default_value
    ELSE IF IsInf(value)
    THEN IF target_type = "int" THEN Raised("OverflowError") ELSE value
    ELSE IF IsNum(value) THEN value
    ELSE LET s_val == strip(py_str(value)) IN
         IF s_val = <<>> \/ str_lower(s_val) \in NaTokens THEN default_value
         ELSE LET s_num == SelectSeq(s_val, LAMBDA c : c \notin {"$", ","}) IN
              IF py_float_is_inf(s_num)
              THEN IF target_type = "int" THEN Raised("OverflowError") ELSE Inf
              ELSE IF py_float_is_nan(s_num)
              THEN IF target_type = "int" THEN default_value ELSE Null
              ELSE IF py_float_exp_ok(s_num)
              THEN Num((IF Head(s_num) = "-" THEN -1 ELSE 1)
                       * digits_to_nat(mantissa_of(s_num)) * pow10(exponent_of(s_num)))
              ELSE IF py_float_ok(s_num) THEN Num(py_float(s_num)) ELSE default_value

(***************************************************************************)
(* standardize_boolean_strict with its default true and false values.      *)
(***************************************************************************)
TrueValues == {<<"t", "r", "u", "e">>, <<"y", "e", "s">>,
               <<"1">>, <<"t">>, <<"y">>, <<"o", "n">>, <<"a", "c", "t", "i", "v", "e">>}
FalseValues == {<<"f", "a", "l", "s", "e">>, <<"n", "o">>,
                <<"0">>, <<"f">>, <<"n">>, <<"o", "f", "f">>, <<"i", "n", "a", "c", "t", "i", "v", "e">>}

standardize_boolean_strict(value, default_if_unknown) ==
    IF IsNull(value) THEN default_if_unknown
    ELSE LET val_str == str_lower(strip(py_str(value))) IN
         IF val_str = <<>> THEN default_if_unknown
         ELSE IF val_str \in TrueValues THEN Bool(TRUE)
         ELSE IF val_str \in FalseValues THEN Bool(FALSE)
         ELSE IF py_float_ok(val_str) /\ py_float(val_str) = 1 THEN Bool(TRUE)
         ELSE IF py_float_ok(val_str) /\ py_float(val_str) = 0 THEN Bool(FALSE)
         ELSE default_if_unknown

(***************************************************************************)
(* DataFrame helpers.                                                      *)
(***************************************************************************)
EmptyDF == [cols |-> {}, rows |-> <<>>]

(* A DataFrame.empty that looks at the rows only. *)
df_has_no_rows(df) == df.rows = <<>>

(* DataFrame.empty: no rows or no columns. *)
df_empty(df) == df.rows = <<>> \/ df.cols = {}

(* df.get(c1, df.get(c2, ... default)): the first column of the list that   *)
(* the batch has; "" when it has none (the all-NA default Series).          *)
RECURSIVE first_present(_, _)
first_present(cols, names) ==
    IF names = <<>> THEN ""
    ELSE IF Head(names) \in cols THEN Head(names)
    ELSE first_present(cols, Tail(names))

cell(df, i, name) == IF name \in df.cols THEN df.rows[i][name] ELSE Null

(* pd.api.types.is_numeric_dtype(df[c].dropna()): a column read as numbers  *)
(* (NaN for its holes), not an object column.                              *)
is_numeric_dtype(df, c) ==
    /\ \A i \in 1..Len(df.rows) : ~IsStr(df.rows[i][c])
    /\ \E i \in 1..Len(df.rows) : IsNum(df.rows[i][c])

(* A cell as str() sees it.  A numeric column with a hole is float64, so   *)
(* its number n reads 'n.0'; an int64 or object column gives 'n'.          *)
text_cell(df, i, name) ==
    LET x == cell(df, i, name) IN
    IF /\ IsNum(x) /\ is_numeric_dtype(df, name)
       /\ \E j \in 1..Len(df.rows) : IsNull(df.rows[j][name])
    THEN Str(int_to_str(x.n) \o <<".", "0">>)
    ELSE x

RECURSIVE IntSeqLess(_, _)
IntSeqLess(a, b) ==
    IF b = <<>> THEN FALSE
    ELSE IF a = <<>> THEN TRUE
    ELSE IF Head(a) = Head(b) THEN IntSeqLess(Tail(a), Tail(b))
    ELSE Head(a) < Head(b)

(* Sort keys: a string as its code points closed by 0, a number after the  *)
(* marker 0, a null after the marker 1 (na_position='last').               *)
str_key(s) == [i \in 1..Len(s) |-> CharCode(s[i])] \o <<0>>
na_last_key(v) ==
    IF IsNull(v) THEN <<1>> ELSE IF IsNum(v) THEN <<0, v.n>> ELSE <<0>> \o str_key(v.s)

RECURSIVE insert_stable(_, _, _)
insert_stable(perm, i, keys) ==
    IF perm = <<>> THEN <<i>>
    ELSE IF IntSeqLess(keys[i], keys[Head(perm)]) THEN <<i>> \o perm
    ELSE <<Head(perm)>> \o insert_stable(Tail(perm), i, keys)

RECURSIVE sort_perm(_, _)
sort_perm(n, keys) ==
    IF n = 0 THEN <<>> ELSE insert_stable(sort_perm(n - 1, keys), n, keys)

(* sort_values(by=...): rows in ascending order of keys, stable. *)
sort_values(rows, keys) ==
    LET perm == sort_perm(Len(rows), keys) IN [j \in 1..Len(rows) |-> rows[perm[j]]]

select_rows(rows, keep(_)) ==
    LET idx == {i \in 1..Len(rows) : keep(i)}
        RECURSIVE pick(_)
        pick(i) == IF i > Len(rows) THEN <<>>
                   ELSE IF i \in idx THEN <<rows[i]>> \o pick(i + 1) ELSE pick(i + 1)
    IN pick(1)

(* drop_duplicates(subset=[col], keep='first') *)
drop_duplicates(rows, col) ==
    select_rows(rows, LAMBDA i : \A j \in 1..(i - 1) : rows[j][col] # rows[i][col])

(***************************************************************************)
(* etl_customers: identity, email and the two dedup passes.  The other     *)
(* attributes (name, phone, address, dates, status, numbers, age, gender,  *)
(* segment) are computed cell by cell and decide neither the id of a row   *)
(* nor whether it is kept.                                                 *)
(***************************************************************************)
ZFILL_LENGTH == 4
CUST_ == <<"C", "U", "S", "T", "_">>
CUST_UNKNOWN_ == CUST_ \o <<"U", "N", "K", "N", "O", "W", "N", "_">>

numeric_id_col_candidate(df) ==
    IF "customer_id" \notin df.cols \/ ~is_numeric_dtype(df, "customer_id")
    THEN IF "CustomerID_numeric" \in df.cols /\ is_numeric_dtype(df, "CustomerID_numeric")
         THEN "CustomerID_numeric"
         ELSE IF "id" \in df.cols /\ is_numeric_dtype(df, "id") THEN "id"
         ELSE "customer_id"
    ELSE "customer_id"

customer_id_canon_pre(df, i) ==
    LET x == text_cell(df, i, first_present(df.cols,
                 <<"cust_id", "customerID", "client_id", "id", "user_id">>))
    IN IF IsNull(x) THEN Null ELSE clean_string(x, "upper", Null)

source_customer_id_int_val(df, i) ==
    to_numeric_safe(cell(df, i, numeric_id_col_candidate(df)), "int", Null)

(* create_canonical_customer_id padding to one digit less. *)
create_canonical_customer_id_short_pad(pre_canon_id, int_val, row_index) ==
    IF ~IsNull(pre_canon_id) /\ strip(pre_canon_id.s) # <<>>
    THEN IF startswith(pre_canon_id.s, CUST_) \/ ~isdigit(pre_canon_id.s)
         THEN pre_canon_id
         ELSE Str(CUST_ \o zfill(int_to_str(digits_to_nat(pre_canon_id.s)), ZFILL_LENGTH - 1))
    ELSE IF ~IsNull(int_val)
         THEN Str(CUST_ \o zfill(int_to_str(int_val.n), ZFILL_LENGTH - 1))
         ELSE Str(CUST_UNKNOWN_ \o int_to_str(row_index))

(* row_index is the 0-based position of the row in the batch. *)
create_canonical_customer_id(pre_canon_id, int_val, row_index) ==
    IF ~IsNull(pre_canon_id) /\ strip(pre_canon_id.s) # <<>>
    THEN IF startswith(pre_canon_id.s, CUST_) \/ ~isdigit(pre_canon_id.s)
         THEN pre_canon_id
         ELSE Str(CUST_ \o zfill(int_to_str(digits_to_nat(pre_canon_id.s)), ZFILL_LENGTH))
    ELSE IF ~IsNull(int_val)
         THEN Str(CUST_ \o zfill(int_to_str(int_val.n), ZFILL_LENGTH))
         ELSE Str(CUST_UNKNOWN_ \o int_to_str(row_index))

(* .replace('', pd.NA).apply(clean_string(x, 'lower') if notna else None) *)
email_clean(x) ==
    IF IsNull(x) \/ x = Str(<<>>) THEN Null ELSE clean_string(x, "lower", Null)

email_final(df, i) ==
    LET email_temp == email_clean(cell(df, i, first_present(df.cols, <<"email", "e-mail">>)))
        email_address_temp ==
            email_clean(cell(df, i, first_present(df.cols, <<"email_address", "user_email">>)))
        coalesced == IF IsNull(email_temp) THEN email_address_temp ELSE email_temp
    IN IF coalesced = Str(<<>>) THEN Null ELSE coalesced

(* df['customer_id_canon'] of line 112, for the row at position i. *)
customer_id_canon(df, i) ==
    create_canonical_customer_id(customer_id_canon_pre(df, i),
                                 source_customer_id_int_val(df, i), i - 1)

(* A raw 'customer_id' column is dropped only when it is the numeric       *)
(* candidate (line 118).  Otherwise it stays, the rename of                *)
(* 'customer_id_canon' makes a second 'customer_id' column, and lines      *)
(* 211-214 keep the first of the two: the raw one.                         *)
raw_customer_id_kept(df) ==
    "customer_id" \in df.cols /\ numeric_id_col_candidate(df) # "customer_id"

(* df_final_customers before the dedup passes, one row per raw row. *)
customers_final_rows(df) ==
    [i \in 1..Len(df.rows) |->
        [customer_id |-> IF raw_customer_id_kept(df) THEN df.rows[i]["customer_id"]
                         ELSE customer_id_canon(df, i),
         email |-> email_final(df, i),
         source_customer_id_int |-> source_customer_id_int_val(df, i)]]

(* dropna(subset=['customer_id']); sort_values(by=['customer_id',           *)
(* 'source_customer_id_int'], na_position='last'); drop_duplicates.        *)
dedup_by_customer_id(rows) ==
    LET kept == SelectSeq(rows, LAMBDA r : ~IsNull(r.customer_id))
        keys == [i \in 1..Len(kept) |->
                    na_last_key(kept[i].customer_id) \o na_last_key(kept[i].source_customer_id_int)]
    IN drop_duplicates(sort_values(kept, keys), "customer_id")

has_valid_email(r) == ~IsNull(r.email) /\ strip(py_str(r.email)) # <<>>

(* dedup_by_email without the split: every row is deduplicated on email. *)
dedup_by_email_all_rows(rows) ==
    LET keys == [i \in 1..Len(rows) |->
                    na_last_key(rows[i].email) \o na_last_key(rows[i].customer_id)]
    IN drop_duplicates(sort_values(rows, keys), "email")

dedup_by_email(rows) ==
    LET df_with_valid_email == SelectSeq(rows, has_valid_email)
        df_without_valid_email == SelectSeq(rows, LAMBDA r : ~has_valid_email(r))
        keys == [i \in 1..Len(df_with_valid_email) |->
                    str_key(df_with_valid_email[i].email.s)
                    \o na_last_key(df_with_valid_email[i].customer_id)]
    IN IF df_with_valid_email # <<>>
       THEN drop_duplicates(sort_values(df_with_valid_email, keys), "email")
            \o df_without_valid_email
       ELSE df_without_valid_email

etl_customers(df_raw_cust) ==
    IF df_empty(df_raw_cust) THEN <<>>
    ELSE dedup_by_email(dedup_by_customer_id(customers_final_rows(df_raw_cust)))

(***************************************************************************)
(* etl_products: identity, the local id-remap table and the dedup pass.    *)
(* A dict is a function from keys (strings) to values.                     *)
(***************************************************************************)
EmptyDict == [x \in {} |-> <<>>]

dict_set(d, key, value) == [x \in DOMAIN d \cup {key} |-> IF x = key THEN value ELSE d[x]]
dict_setdefault(d, key, value) == IF key \in DOMAIN d THEN d ELSE dict_set(d, key, value)

source_item_id_int_val(df, i) ==
    to_numeric_safe(cell(df, i, first_present(df.cols, <<"item_id", "id">>)), "int", Null)

product_id_canon(df, i) ==
    LET x == text_cell(df, i, first_present(df.cols,
                 <<"product_id", "productid", "item_code", "product_code">>))
    IN IF IsNull(x) THEN Null ELSE clean_string(x, "upper", Null)

(* The loop of lines 329-333 over the rows 1..n. *)
RECURSIVE product_id_mapping_dict_local(_, _)
product_id_mapping_dict_local(df, n) ==
    IF n = 0 THEN EmptyDict
    ELSE LET d == product_id_mapping_dict_local(df, n - 1)
             prod_id_canon == product_id_canon(df, n)
             src_item_id_int == source_item_id_int_val(df, n)
             d1 == IF ~IsNull(src_item_id_int) /\ ~IsNull(prod_id_canon)
                   THEN dict_set(d, py_str(src_item_id_int), py_str(prod_id_canon))
                   ELSE d
         IN IF ~IsNull(prod_id_canon)
            THEN dict_setdefault(d1, py_str(prod_id_canon), py_str(prod_id_canon))
            ELSE d1

products_final_rows(df) ==
    [i \in 1..Len(df.rows) |->
        [product_id |-> product_id_canon(df, i),
         source_item_id_int |-> source_item_id_int_val(df, i)]]

dedup_by_product_id(rows) ==
    LET kept == SelectSeq(rows, LAMBDA r : ~IsNull(r.product_id))
        keys == [i \in 1..Len(kept) |->
                    na_last_key(kept[i].product_id) \o na_last_key(kept[i].source_item_id_int)]
    IN drop_duplicates(sort_values(kept, keys), "product_id")

(* Returns the pair (table, remap). *)
etl_products(df_raw_prod) ==
    IF df_empty(df_raw_prod) THEN [table |-> <<>>, remap |-> EmptyDict]
    ELSE [table |-> dedup_by_product_id(products_final_rows(df_raw_prod)),
          remap |-> product_id_mapping_dict_local(df_raw_prod, Len(df_raw_prod.rows))]

(***************************************************************************)
(* Phone numbers and postal codes.                                         *)
(***************************************************************************)
(* re.sub(r'\D', '', s) and re.sub(r'[^0-9]', '', s) *)
remove_non_digits(s) == SelectSeq(s, IsDigitChar)

standardize_phone_strict(phone_str, default_if_invalid) ==
    IF IsNull(phone_str) THEN default_if_invalid
    ELSE LET cleaned == remove_non_digits(py_str(phone_str)) IN
         IF Len(cleaned) = 10
         THEN Str(<<"(">> \o SubSeq(cleaned, 1, 3) \o <<")", " ">> \o SubSeq(cleaned, 4, 6)
                  \o <<"-">> \o SubSeq(cleaned, 7, 10))
         ELSE IF Len(cleaned) = 11 /\ startswith(cleaned, <<"1">>)
         THEN Str(<<"+", "1", " ", "(">> \o SubSeq(cleaned, 2, 4) \o <<")", " ">>
                  \o SubSeq(cleaned, 5, 7) \o <<"-">> \o SubSeq(cleaned, 8, 11))
         ELSE default_if_invalid

standardize_postal_code(postal_code_str, country, default_if_invalid) ==
    IF IsNull(postal_code_str) THEN default_if_invalid
    ELSE LET pc_str == remove_non_digits(strip(py_str(postal_code_str))) IN
         IF country = "US" /\ Len(pc_str) = 5 THEN Str(pc_str)
         ELSE IF country = "US" /\ Len(pc_str) = 9
         THEN Str(SubSeq(pc_str, 1, 5) \o <<"-">> \o SubSeq(pc_str, 6, 9))
         ELSE default_if_invalid

(***************************************************************************)
(* Categorical attributes: the vocabulary tables of config.py and the      *)
(* lookups made through them.                                              *)
(***************************************************************************)
DEFAULT_UNKNOWN_CATEGORICAL == <<"U", "N", "K", "N", "O", "W", "N">>
DEFAULT_STATUS_UNKNOWN == <<"U", "N", "K", "N", "O", "W", "N">>

GENDER_MAP ==
    (<<"M">> :> <<"M", "A", "L", "E">>) @@
    (<<"F">> :> <<"F", "E", "M", "A", "L", "E">>) @@
    (<<"M", "A", "L", "E">> :> <<"M", "A", "L", "E">>) @@
    (<<"F", "E", "M", "A", "L", "E">> :> <<"F", "E", "M", "A", "L", "E">>) @@
    (<<"O", "T", "H", "E", "R">> :> <<"O", "T", "H", "E", "R">>) @@
    (<<>> :> <<"U", "N", "K", "N", "O", "W", "N">>) @@
    (<<" ">> :> <<"U", "N", "K", "N", "O", "W", "N">>) @@
    (<<"N", "O", "N", "E">> :> <<"U", "N", "K", "N", "O", "W", "N">>)

CUSTOMER_STATUS_MAP ==
    (<<"A", "C", "T", "I", "V", "E">> :> <<"A", "C", "T", "I", "V", "E">>) @@
    (<<"I", "N", "A", "C", "T", "I", "V", "E">> :> <<"I", "N", "A", "C", "T", "I", "V", "E">>) @@
    (<<"P", "E", "N", "D", "I", "N", "G">> :> <<"P", "E", "N", "D", "I", "N", "G">>) @@
    (<<"S", "U", "S", "P", "E", "N", "D", "E", "D">> :> <<"S", "U", "S", "P", "E", "N", "D", "E", "D">>) @@
    (<<>> :> <<"U", "N", "K", "N", "O", "W", "N">>) @@
    (<<" ">> :> <<"U", "N", "K", "N", "O", "W", "N">>) @@
    (<<"N", "O", "N", "E">> :> <<"U", "N", "K", "N", "O", "W", "N">>)

PAYMENT_STATUS_MAP ==
    (<<"C", "O", "M", "P", "L", "E", "T", "E", "D">> :> <<"C", "O", "M", "P", "L", "E", "T", "E", "D">>) @@
    (<<"P", "E", "N", "D", "I", "N", "G">> :> <<"P", "E", "N", "D", "I", "N", "G">>) @@
    (<<"F", "A", "I", "L", "E", "D">> :> <<"F", "A", "I", "L", "E", "D">>) @@
    (<<>> :> <<"U", "N", "K", "N", "O", "W", "N">>)

ORDER_DELIVERY_STATUS_MAP ==
    (<<"D", "E", "L", "I", "V", "E", "R", "E", "D">> :> <<"D", "E", "L", "I", "V", "E", "R", "E", "D">>) @@
    (<<"P", "E", "N", "D", "I", "N", "G">> :> <<"P", "E", "N", "D", "I", "N", "G">>) @@
    (<<"I", "N", "_", "T", "R", "A", "N", "S", "I", "T">> :> <<"I", "N", "_", "T", "R", "A", "N", "S", "I", "T">>) @@
    (<<"P", "R", "O", "C", "E", "S", "S", "I", "N", "G">> :> <<"P", "R", "O", "C", "E", "S", "S", "I", "N", "G">>) @@
    (<<"S", "H", "I", "P", "P", "E", "D">> :> <<"S", "H", "I", "P", "P", "E", "D">>) @@
    (<<"C", "A", "N", "C", "E", "L", "L", "E", "D">> :> <<"C", "A", "N", "C", "E", "L", "L", "E", "D">>) @@
    (<<"R", "E", "T", "U", "R", "N", "E", "D">> :> <<"R", "E", "T", "U", "R", "N", "E", "D">>) @@
    (<<>> :> <<"U", "N", "K", "N", "O", "W", "N">>) @@
    (<<" ">> :> <<"U", "N", "K", "N", "O", "W", "N">>) @@
    (<<"N", "O", "N", "E">> :> <<"U", "N", "K", "N", "O", "W", "N">>)

STATE_ABBREVIATION_MAP ==
    (<<"C", "A", "L", "I", "F", "O", "R", "N", "I", "A">> :> <<"C", "A">>) @@
    (<<"N", "E", "W", " ", "Y", "O", "R", "K">> :> <<"N", "Y">>) @@
    (<<"I", "L", "L", "I", "N", "O", "I", "S">> :> <<"I", "L">>) @@
    (<<"T", "E", "X", "A", "S">> :> <<"T", "X">>) @@
    (<<"P", "E", "N", "N", "S", "Y", "L", "V", "A", "N", "I", "A">> :> <<"P", "A">>) @@
    (<<"A", "R", "I", "Z", "O", "N", "A">> :> <<"A", "Z">>) @@
    (<<"C", "A">> :> <<"C", "A">>) @@ (<<"N", "Y">> :> <<"N", "Y">>) @@
    (<<"I", "L">> :> <<"I", "L">>) @@ (<<"T", "X">> :> <<"T", "X">>) @@
    (<<"P", "A">> :> <<"P", "A">>) @@ (<<"A", "Z">> :> <<"A", "Z">>)

CITY_NORMALIZATION_MAP ==
    (<<"L", "A">> :> <<"L", "o", "s", " ", "A", "n", "g", "e", "l", "e", "s">>) @@
    (<<"L", "O", "S", "A", "N", "G", "E", "L", "E", "S">> :> <<"L", "o", "s", " ", "A", "n", "g", "e", "l", "e", "s">>) @@
    (<<"L", "O", "S", " ", "A", "N", "G", "E", "L", "E", "S">> :> <<"L", "o", "s", " ", "A", "n", "g", "e", "l", "e", "s">>) @@
    (<<"N", "Y", "C">> :> <<"N", "e", "w", " ", "Y", "o", "r", "k">>) @@
    (<<"N", "E", "W", " ", "Y", "O", "R", "K", " ", "C", "I", "T", "Y">> :> <<"N", "e", "w", " ", "Y", "o", "r", "k">>) @@
    (<<"N", "E", "W", "_", "Y", "O", "R", "K">> :> <<"N", "e", "w", " ", "Y", "o", "r", "k">>) @@
    (<<"N", "E", "W", " ", "Y", "O", "R", "K">> :> <<"N", "e", "w", " ", "Y", "o", "r", "k">>) @@
    (<<"P", "H", "I", "L", "A">> :> <<"P", "h", "i", "l", "a", "d", "e", "l", "p", "h", "i", "a">>) @@
    (<<"P", "H", "I", "L", "A", "D", "E", "L", "P", "H", "I", "A">> :> <<"P", "h", "i", "l", "a", "d", "e", "l", "p", "h", "i", "a">>) @@
    (<<"C", "H", "I", "C", "A", "G", "O">> :> <<"C", "h", "i", "c", "a", "g", "o">>) @@
    (<<"C", "H", "G", "O">> :> <<"C", "h", "i", "c", "a", "g", "o">>) @@
    (<<"P", "H", "O", "E", "N", "I", "X">> :> <<"P", "h", "o", "e", "n", "i", "x">>) @@
    (<<"H", "O", "U", "S", "T", "O", "N">> :> <<"H", "o", "u", "s", "t", "o", "n">>)

(* dict.get(key, default) *)
dict_get(d, key, default) == IF key \in DOMAIN d THEN d[key] ELSE default

standardize_categorical(value, mapping_dict, default_value, case_transform) ==
    IF IsNull(value) THEN Str(default_value)
    ELSE LET stripped == strip(py_str(value))
             cleaned_value == CASE case_transform = "lower" -> str_lower(stripped)
                                [] case_transform = "upper" -> str_upper(stripped)
                                [] OTHER -> stripped
         IN IF stripped = <<>> THEN Str(default_value)
            ELSE Str(dict_get(mapping_dict, cleaned_value, default_value))

(* Series.replace('', NA).replace(' ', NA).replace('None', NA) on one cell. *)
replace_blank_status(x) ==
    IF IsStr(x) /\ x.s \in {<<>>, <<" ">>, <<"N", "o", "n", "e">>} THEN Null ELSE x

(* etl_customers, status_final of a row whose only status column holds x. *)
status_final(x) ==
    LET status_cleaned_for_map == clean_string(replace_blank_status(x), "upper", Null) IN
    IF IsNull(status_cleaned_for_map) THEN Str(DEFAULT_STATUS_UNKNOWN)
    ELSE Str(dict_get(CUSTOMER_STATUS_MAP, status_cleaned_for_map.s, DEFAULT_STATUS_UNKNOWN))

(* etl_customers, gender_final of a row whose gender column holds x. *)
gender_final(x) ==
    LET gender_cleaned == clean_string(x, "upper", Null) IN
    IF IsNull(gender_cleaned) THEN Str(DEFAULT_UNKNOWN_CATEGORICAL)
    ELSE Str(dict_get(GENDER_MAP, gender_cleaned.s, DEFAULT_UNKNOWN_CATEGORICAL))

(* etl_customers, address_city_final of a row whose city column holds x. *)
address_city_final(x) ==
    LET address_city_cleaned == clean_string(x, "upper", Null) IN
    IF IsNull(address_city_cleaned) \/ address_city_cleaned.s = <<>>
    THEN Str(DEFAULT_UNKNOWN_CATEGORICAL)
    ELSE Str(dict_get(CITY_NORMALIZATION_MAP, address_city_cleaned.s,
                      str_title(address_city_cleaned.s)))

(* etl_customers, address_state_final of a row whose state column holds x. *)
address_state_final(x) ==
    LET address_state_cleaned == clean_string(x, "upper", Null) IN
    IF IsNull(address_state_cleaned) \/ address_state_cleaned.s = <<>>
    THEN Str(DEFAULT_UNKNOWN_CATEGORICAL)
    ELSE Str(dict_get(STATE_ABBREVIATION_MAP, address_state_cleaned.s,
                      address_state_cleaned.s))

(***************************************************************************)
(* Order-item resolvers.  A resolved item carries the ids, the numeric     *)
(* line fields and `line`, the positional index of its raw row (the last   *)
(* component of original_line_identifier).  A resolver's result is the     *)
(* sequence of its rows; <<>> is the empty DataFrame.                      *)
(***************************************************************************)
CLI_ == <<"C", "L", "I", "_">>
ITM_ == <<"I", "T", "M", "_">>

map_recon_customer_id(client_ref_val, canonical_customer_ids_set_local) ==
    IF IsNull(client_ref_val) THEN Null
    ELSE LET cleaned_client_ref == clean_string(Str(py_str(client_ref_val)), "upper", Null)
             potential_cust_id == str_replace(cleaned_client_ref.s, CLI_, CUST_)
         IN IF /\ ~IsNull(cleaned_client_ref)
               /\ cleaned_client_ref.s # <<>>
               /\ startswith(cleaned_client_ref.s, CLI_)
               /\ potential_cust_id \in canonical_customer_ids_set_local
            THEN Str(potential_cust_id)
            ELSE IF /\ ~IsNull(cleaned_client_ref)
                    /\ cleaned_client_ref.s \in canonical_customer_ids_set_local
                 THEN cleaned_client_ref
                 ELSE Null

(* The product reference cleaned and returned without any lookup. *)
map_recon_product_id_unchecked(item_ref_val, product_int_to_canonical_map, canonical_prod_ids_set_local) ==
    IF IsNull(item_ref_val) THEN Null ELSE clean_string(Str(py_str(item_ref_val)), "upper", Null)

map_recon_product_id_corrected(item_ref_val, product_int_to_canonical_map, canonical_prod_ids_set_local) ==
    IF IsNull(item_ref_val) THEN Null
    ELSE LET cleaned_item_ref == clean_string(Str(py_str(item_ref_val)), "upper", Null) IN
         IF IsNull(cleaned_item_ref) \/ cleaned_item_ref.s = <<>> THEN Null
         ELSE IF cleaned_item_ref.s \in canonical_prod_ids_set_local THEN cleaned_item_ref
         ELSE LET item_num_str ==
                      IF startswith(cleaned_item_ref.s, ITM_)
                      THEN str_replace(cleaned_item_ref.s, ITM_, <<>>)
                      ELSE IF isdigit(cleaned_item_ref.s) THEN cleaned_item_ref.s
                      ELSE <<>>
              IN IF /\ isdigit(item_num_str)
                    /\ item_num_str \in DOMAIN product_int_to_canonical_map
                 THEN Str(product_int_to_canonical_map[item_num_str])
                 ELSE Null

recon_order_id(df, i) ==
    LET x == text_cell(df, i, "transaction_ref")
    IN IF IsNull(x) THEN Null ELSE clean_string(x, "upper", Null)

(* Product of two numeric cells (NaN when one is missing). *)
num_mul(a, b) == IF IsNull(a) \/ IsNull(b) THEN Null ELSE Num(a.n * b.n)

(* df.get(name, pd.Series(dtype=object)).apply(to_numeric_safe(...)): a     *)
(* column the batch lacks gives an empty Series, hence NaN in every row,   *)
(* not the default.                                                        *)
numeric_col(df, i, name, target_type, default_value) ==
    IF name \in df.cols THEN to_numeric_safe(df.rows[i][name], target_type, default_value)
    ELSE Null

recon_row(df, i, cust_ids, prod_ids, prod_map) ==
    LET quantity == numeric_col(df, i, "quantity_ordered", "int", Num(1))
        unit_price == numeric_col(df, i, "unit_cost", "float", Num(0))
    IN [order_id |-> recon_order_id(df, i),
        customer_id |-> map_recon_customer_id(text_cell(df, i, "client_reference"), cust_ids),
        product_id |-> map_recon_product_id_corrected(text_cell(df, i, "item_reference"),
                                                      prod_map, prod_ids),
        quantity |-> quantity,
        unit_price |-> unit_price,
        line_item_total_value |-> num_mul(quantity, unit_price),
        line_item_discount |-> numeric_col(df, i, "discount_applied", "float", Num(0)),
        line_item_shipping_fee |-> numeric_col(df, i, "shipping_fee", "float", Num(0)),
        line_item_tax |-> numeric_col(df, i, "tax_amount", "float", Num(0)),
        line_item_amount_paid_final |-> numeric_col(df, i, "amount_paid", "float", Num(0)),
        line |-> i - 1]

(* has_key_ids with 'product_id' left out of the subset. *)
has_key_ids_without_product(r) == ~IsNull(r.order_id) /\ ~IsNull(r.customer_id)

has_key_ids(r) == ~IsNull(r.order_id) /\ ~IsNull(r.customer_id) /\ ~IsNull(r.product_id)

etl_order_items_from_reconciliation(df_raw, current_existing_cust_ids, current_existing_prod_ids, current_prod_id_map) ==
    IF df_empty(df_raw) THEN <<>>
    ELSE SelectSeq([i \in 1..Len(df_raw.rows) |->
                       recon_row(df_raw, i, current_existing_cust_ids,
                                 current_existing_prod_ids, current_prod_id_map)],
                   has_key_ids)

(* Series.isin(values) on one cell: a missing value is in no set. *)
isin(v, values) == IsStr(v) /\ v.s \in values

(* Series.astype(str): a missing value becomes the text 'nan'. *)
astype_str(v) == IF IsNull(v) THEN <<"n", "a", "n">> ELSE py_str(v)

(* a.fillna(b) of two columns taken with df.get(name, empty Series): an     *)
(* absent first column gives an empty Series whatever the second is.       *)
get_fillna(df, i, first, second) ==
    IF first \notin df.cols THEN Null
    ELSE IF ~IsNull(df.rows[i][first]) THEN df.rows[i][first]
    ELSE cell(df, i, second)

unstructured_order_id(df, i) ==
    LET x == IF "order_id" \notin df.cols THEN Null
             ELSE IF ~IsNull(df.rows[i]["order_id"]) THEN text_cell(df, i, "order_id")
             ELSE IF "ord_id" \in df.cols THEN Str(astype_str(text_cell(df, i, "ord_id")))
             ELSE Null
    IN IF IsNull(x) THEN Null ELSE clean_string(x, "upper", Null)

customer_id_str_source(df, i) ==
    IF "cust_id" \in df.cols
    THEN clean_string(Str(astype_str(text_cell(df, i, "cust_id"))), "upper", Null)
    ELSE Null

derive_unstructured_customer_id(str_id, int_id) ==
    IF ~IsNull(str_id) /\ strip(str_id.s) # <<>>
    THEN IF startswith(str_id.s, CUST_) \/ ~isdigit(str_id.s)
         THEN str_id
         ELSE Str(CUST_ \o zfill(int_to_str(digits_to_nat(str_id.s)), ZFILL_LENGTH))
    ELSE IF ~IsNull(int_id)
         THEN Str(CUST_ \o zfill(int_to_str(int_id.n), ZFILL_LENGTH))
         ELSE Null

(* The arguments are the raw row's 'product_id' and 'item_id' cells; a     *)
(* numeric item_id is written as an integer (str(int(item_id_val))).       *)
resolve_unstructured_product_id(product_id_cell, item_id_val, product_id_lookup_map, canonical_product_id_set) ==
    LET prod_id_val == clean_string(product_id_cell, "upper", Null)
        item_id_val_str == IF IsNull(item_id_val) THEN <<>> ELSE py_str(item_id_val)
    IN IF /\ ~IsNull(prod_id_val)
          /\ prod_id_val.s # <<>>
          /\ prod_id_val.s \in canonical_product_id_set
       THEN prod_id_val
       ELSE IF item_id_val_str # <<>> /\ item_id_val_str \in DOMAIN product_id_lookup_map
            THEN Str(product_id_lookup_map[item_id_val_str])
            ELSE IF item_id_val_str # <<>> /\ item_id_val_str \in canonical_product_id_set
                 THEN Str(item_id_val_str)
                 ELSE Null

num_or_zero(v) == IF IsNull(v) THEN 0 ELSE v.n

unstructured_row(df, i, cust_ids, prod_ids, prod_map) ==
    LET quantity == IF "quantity" \in df.cols
                    THEN to_numeric_safe(get_fillna(df, i, "quantity", "qty"), "int", Num(1))
                    ELSE Null
        unit_price == IF "unit_price" \in df.cols
                      THEN to_numeric_safe(get_fillna(df, i, "unit_price", "price"), "float", Num(0))
                      ELSE Null
        calculated_line_total == num_mul(quantity, unit_price)
        total_amount == numeric_col(df, i, "total_amount", "float", Null)
        line_item_total_value ==
            IF "total_amount" \notin df.cols THEN Null
            ELSE IF IsNull(total_amount) THEN calculated_line_total ELSE total_amount
        line_item_discount == numeric_col(df, i, "discount", "float", Num(0))
        line_item_tax == numeric_col(df, i, "tax", "float", Num(0))
        line_item_shipping_fee == numeric_col(df, i, "shipping_cost", "float", Num(0))
    IN [order_id |-> unstructured_order_id(df, i),
        customer_id |-> derive_unstructured_customer_id(customer_id_str_source(df, i),
                            numeric_col(df, i, "customer_id", "int", Null)),
        product_id |-> resolve_unstructured_product_id(text_cell(df, i, "product_id"),
                            cell(df, i, "item_id"), prod_map, prod_ids),
        quantity |-> quantity,
        unit_price |-> unit_price,
        line_item_total_value |-> line_item_total_value,
        line_item_discount |-> line_item_discount,
        line_item_shipping_fee |-> line_item_shipping_fee,
        line_item_tax |-> line_item_tax,
        line_item_amount_paid_final |->
            Num(num_or_zero(line_item_total_value) - num_or_zero(line_item_discount)
                + num_or_zero(line_item_tax) + num_or_zero(line_item_shipping_fee)),
        line |-> i - 1]

etl_order_items_from_unstructured(df_raw, current_existing_cust_ids, current_existing_prod_ids, current_prod_id_map) ==
    IF df_empty(df_raw) THEN <<>>
    ELSE SelectSeq([i \in 1..Len(df_raw.rows) |->
                       unstructured_row(df_raw, i, current_existing_cust_ids,
                                        current_existing_prod_ids, current_prod_id_map)],
                   LAMBDA r : /\ has_key_ids(r)
                              /\ isin(r.customer_id, current_existing_cust_ids)
                              /\ isin(r.product_id, current_existing_prod_ids))

(***************************************************************************)
(* etl_combine_orders_and_create_orders_table.  df_items_list is a         *)
(* sequence of item batches, each a sequence of item rows (<<>> for an     *)
(* empty or None batch).  The result is [items |-> ..., orders |-> ...].   *)
(***************************************************************************)
RECURSIVE concat(_)
concat(batches) == IF batches = <<>> THEN <<>> ELSE Head(batches) \o concat(Tail(batches))

(* pd.to_numeric(col, errors='coerce').fillna(0.0) on one cell. *)
coerce_fillna0(v) ==
    IF IsNum(v) THEN v.n
    ELSE IF IsStr(v) /\ py_float_ok(strip(v.s)) /\ "_" \notin {v.s[i] : i \in 1..Len(v.s)}
         THEN py_float(strip(v.s))
         ELSE 0

numeric_agg(r) ==
    [r EXCEPT !.line_item_shipping_fee = Num(coerce_fillna0(@)),
              !.line_item_tax = Num(coerce_fillna0(@)),
              !.line_item_discount = Num(coerce_fillna0(@)),
              !.line_item_total_value = Num(coerce_fillna0(@)),
              !.line_item_amount_paid_final = Num(coerce_fillna0(@))]

(* groupby('order_id', sort=False): the keys in order of first appearance;  *)
(* rows with a null key belong to no group.                                *)
group_keys(rows) ==
    LET keyed == SelectSeq(rows, LAMBDA r : ~IsNull(r.order_id))
        firsts == drop_duplicates(keyed, "order_id")
    IN [i \in 1..Len(firsts) |-> firsts[i].order_id]

group_rows(rows, key) == SelectSeq(rows, LAMBDA r : r.order_id = key)

(* GroupBy 'first': the first non-null value of the column in the group. *)
agg_first(grp, col) ==
    LET present == SelectSeq(grp, LAMBDA r : ~IsNull(r[col]))
    IN IF present = <<>> THEN Null ELSE present[1][col]

(* agg_sum taking the first value of the group ('first' for 'sum'). *)
agg_sum_first_only(grp, col) == IF grp = <<>> THEN 0 ELSE Head(grp)[col].n

RECURSIVE agg_sum(_, _)
agg_sum(grp, col) ==
    IF grp = <<>> THEN 0 ELSE Head(grp)[col].n + agg_sum(Tail(grp), col)

(* order_total_value_net without the subtraction. *)
order_total_value_net_no_discount(gross, discount_total) == gross

order_total_value_net(gross, discount_total) == gross - discount_total

derive_order(rows, key) ==
    LET grp == group_rows(rows, key)
        gross == agg_sum(grp, "line_item_total_value")
        discount_total == agg_sum(grp, "line_item_discount")
    IN [order_id |-> key,
        customer_id |-> agg_first(grp, "customer_id"),
        shipping_cost_total |-> agg_sum(grp, "line_item_shipping_fee"),
        tax_total |-> agg_sum(grp, "line_item_tax"),
        discount_total |-> discount_total,
        order_total_value_gross |-> gross,
        amount_paid_total |-> agg_sum(grp, "line_item_amount_paid_final"),
        order_total_value_net |-> order_total_value_net(gross, discount_total)]

(* Lines 615-618: the filter runs only when some order has a customer_id.  *)
filter_orders_by_customer(df_orders, current_existing_cust_ids_for_orders) ==
    IF \E i \in 1..Len(df_orders) : ~IsNull(df_orders[i].customer_id)
    THEN SelectSeq(df_orders,
                   LAMBDA o : astype_str(o.customer_id) \in current_existing_cust_ids_for_orders)
    ELSE df_orders

(* filter_items_by_orders without the filter. *)
filter_items_by_orders_keep_all(df_all_order_items, df_orders) == df_all_order_items

(* Lines 623-628: OrderItems restricted to the surviving orders. *)
filter_items_by_orders(df_all_order_items, df_orders) ==
    IF df_orders # <<>>
    THEN SelectSeq(df_all_order_items,
                   LAMBDA r : \E i \in 1..Len(df_orders) : df_orders[i].order_id = r.order_id)
    ELSE <<>>

etl_combine_orders_and_create_orders_table(df_items_list, current_existing_cust_ids_for_orders) ==
    IF \A i \in 1..Len(df_items_list) : df_items_list[i] = <<>>
    THEN [items |-> <<>>, orders |-> <<>>]
    ELSE LET concatenated == concat(df_items_list)
             df_all_order_items ==
                 [i \in 1..Len(concatenated) |-> numeric_agg(concatenated[i])]
             keys == group_keys(df_all_order_items)
             derived == [i \in 1..Len(keys) |-> derive_order(df_all_order_items, keys[i])]
             df_orders ==
                 filter_orders_by_customer(derived, current_existing_cust_ids_for_orders)
         IN [items |-> filter_items_by_orders(df_all_order_items, df_orders),
             orders |-> df_orders]

(* The order_status aggregation of line 603 on the item statuses x of one  *)
(* order.  Series.mode(dropna=False) gives the most frequent values,       *)
(* sorted when they can be compared; a missing status among the modes      *)
(* makes the sort fail and leaves them as the value counts give them, in   *)
(* the order of first occurrence.                                          *)
count_of(x, v) == Cardinality({i \in 1..Len(x) : x[i] = v})

modes(x) == {x[i] : i \in {j \in 1..Len(x) : \A k \in 1..Len(x) :
                                                count_of(x, x[k]) <= count_of(x, x[j])}}

order_status(x) ==
    IF x = <<>> THEN Str(DEFAULT_STATUS_UNKNOWN)
    ELSE IF \A v \in modes(x) : IsStr(v)
    THEN CHOOSE v \in modes(x) : \A w \in modes(x) : ~IntSeqLess(str_key(w.s), str_key(v.s))
    ELSE x[CHOOSE i \in 1..Len(x) : x[i] \in modes(x) /\ \A j \in 1..(i - 1) : x[j] \notin modes(x)]

(***************************************************************************)
(* The age of a customer (lines 171-178).  birth_date_final is what        *)
(* parse_date_robustly returned: None or a date written YYYY-MM-DD.  A     *)
(* date is a record [year, month, day]; today is datetime.today().         *)
(***************************************************************************)
(* str.find and str.rfind of one character, counted from 1; 0 when absent. *)
str_find(s, c) ==
    IF \E p \in 1..Len(s) : s[p] = c
    THEN CHOOSE p \in 1..Len(s) : s[p] = c /\ \A q \in 1..(p - 1) : s[q] # c
    ELSE 0

str_rfind(s, c) ==
    IF \E p \in 1..Len(s) : s[p] = c
    THEN CHOOSE p \in 1..Len(s) : s[p] = c /\ \A q \in (p + 1)..Len(s) : s[q] # c
    ELSE 0

is_leap(year) == year % 4 = 0 /\ (year % 100 # 0 \/ year % 400 = 0)

days_in_month(year, month) ==
    IF month = 2 THEN (IF is_leap(year) THEN 29 ELSE 28)
    ELSE IF month \in {4, 6, 9, 11} THEN 30 ELSE 31

(* datetime.strptime(s, '%Y-%m-%d'): Null where it raises ValueError. *)
strptime_ymd(s) ==
    LET first_dash == str_find(s, "-")
        rest == SubSeq(s, first_dash + 1, Len(s))
        second_dash == str_find(rest, "-")
        year == SubSeq(s, 1, first_dash - 1)
        month == SubSeq(rest, 1, second_dash - 1)
        day == SubSeq(rest, second_dash + 1, Len(rest))
    IN IF first_dash = 0 \/ second_dash = 0 THEN Null
       ELSE IF ~(isdigit(year) /\ Len(year) = 4 /\ isdigit(month) /\ Len(month) <= 2
                 /\ isdigit(day) /\ Len(day) <= 2) THEN Null
       ELSE IF digits_to_nat(month) \notin 1..12 \/ digits_to_nat(year) = 0 THEN Null
       ELSE IF digits_to_nat(day) \notin
                   1..days_in_month(digits_to_nat(year), digits_to_nat(month)) THEN Null
       ELSE [year |-> digits_to_nat(year), month |-> digits_to_nat(month),
             day |-> digits_to_nat(day)]

calculate_age(birth_date_str, today) ==
    IF IsNull(birth_date_str) THEN Null
    ELSE LET text == py_str(birth_date_str)
             birth_dt == strptime_ymd(SubSeq(text, 1, IF Len(text) < 10 THEN Len(text) ELSE 10))
         IN IF birth_dt = Null THEN Null
            ELSE Num(today.year - birth_dt.year
                     - (IF today.month < birth_dt.month
                           \/ (today.month = birth_dt.month /\ today.day < birth_dt.day)
                        THEN 1 ELSE 0))

(* Line 178: age_calculated.fillna(age_provided_numeric); a batch without  *)
(* an 'age' column fills nothing.                                          *)
age_final(birth_date_final, has_age_column, age, today) ==
    LET age_calculated == calculate_age(birth_date_final, today)
        age_provided_numeric == IF has_age_column THEN to_numeric_safe(age, "int", Null)
                                ELSE Null
    IN IF IsNull(age_calculated) THEN age_provided_numeric ELSE age_calculated

(***************************************************************************)
(* ai_reconciliation.  The module globals gemini_model and                 *)
(* gemini_api_key_provided are part of the call's arguments and result.    *)
(* A response text is a sequence of characters in which FENCE stands for   *)
(* three backticks.  A parsed JSON value is Null, a scalar, JsonList or    *)
(* Mapping(d) with d a function from keys to values.                       *)
(***************************************************************************)
FENCE == "<FENCE>"
S_gemini_model == <<"g", "e", "m", "i", "n", "i">>
JsonList == [k |-> "list"]
Mapping(d) == [k |-> "dict", d |-> d]
IsMapping(v) == v.k = "dict"

S_object == <<"{", "\"", "a", "\"", ":", " ", "{", "}", "}">>
S_array == <<"[", "]">>
S_null == <<"n", "u", "l", "l">>

(* json.loads on the documents the responses spell; any other text is not  *)
(* a JSON document.                                                        *)
json_loads(json_str) ==
    CASE json_str = S_object -> Mapping([x \in {<<"a">>} |-> Mapping(EmptyDict)])
      [] json_str = <<"{", "}">> -> Mapping(EmptyDict)
      [] json_str = S_array -> JsonList
      [] json_str = S_null -> Null
      [] json_str = <<"7">> -> Num(7)
      [] OTHER -> Raised("JSONDecodeError")

(* re.search of the fence pattern in text (line 105): the text between    *)
(* the first fence (and a json tag after it) and the next fence, trimmed;  *)
(* Null when the text has no two fences.                                   *)
fenced_json_str(text) ==
    LET open == str_find(text, FENCE)
        rest == SubSeq(text, open + 1, Len(text))
        close == str_find(rest, FENCE)
        inner == SubSeq(rest, 1, close - 1)
    IN IF open = 0 \/ close = 0 THEN Null
       ELSE Str(strip(IF startswith(inner, <<"j", "s", "o", "n">>)
                      THEN SubSeq(inner, 5, Len(inner)) ELSE inner))

(* Lines 105-115: the text handed to json.loads. *)
extract_json_str(text) ==
    LET match == fenced_json_str(text)
        first_brace == str_find(text, "{")
        last_brace == str_rfind(text, "}")
    IN IF ~IsNull(match) THEN match.s
       ELSE IF first_brace # 0 /\ last_brace # 0 /\ last_brace > first_brace
       THEN strip(SubSeq(text, first_brace, last_brace))
       ELSE strip(text)

(* configure_gemini: the model it returns and leaves in gemini_model, Null *)
(* when there is no key or the configuration raised.  env.api_key is       *)
(* GEMINI_API_KEY being set, env.prompt what getpass did, env.configure    *)
(* whether genai.configure and GenerativeModel succeeded.                  *)
configure_gemini(gemini_model, env) ==
    IF ~IsNull(gemini_model) THEN gemini_model
    ELSE IF ~env.api_key /\ env.prompt # "key" THEN Null
    ELSE IF env.configure = "raises" THEN Null
    ELSE Str(S_gemini_model)

(* What the call leaves in the globals and what it returns.  api is what   *)
(* generate_content did: it raised, or it returned a response whose text   *)
(* is api.text, or one whose text property raises (api.kind "blocked").    *)
get_ai_schema_mapping_suggestions(gemini_model, gemini_api_key_provided, env, api) ==
    LET configured ==
            IF (~gemini_api_key_provided \/ IsNull(gemini_model))
               /\ IsNull(gemini_model) /\ ~gemini_api_key_provided
            THEN configure_gemini(gemini_model, env)
            ELSE gemini_model
        key_provided == IF IsNull(gemini_model) /\ ~gemini_api_key_provided
                        THEN ~IsNull(configured) ELSE gemini_api_key_provided
        suggestions == json_loads(extract_json_str(api.text))
        value ==
            IF (~gemini_api_key_provided \/ IsNull(gemini_model)) /\ IsNull(configured)
            THEN Null
            ELSE IF api.kind \in {"raises", "blocked"} THEN Null
            ELSE IF IsRaised(suggestions)
            THEN Mapping([x \in {<<"error">>, <<"raw_text">>} |->
                             IF x = <<"error">> THEN Str(<<"I", "n", "v", "a", "l", "i", "d", " ", "J", "S", "O", "N", " ", "r", "e", "s", "p", "o", "n", "s", "e">>) ELSE Str(api.text)])
            ELSE suggestions
    IN [value |-> value, gemini_model |-> configured, gemini_api_key_provided |-> key_provided]

(***************************************************************************)
(* Inputs.  Strings are spelled character by character.                    *)
(***************************************************************************)
MaxRows == 2
MaxCustomerRows == 3
MaxItems == 2

Seqs(S, n) == UNION {[1..k -> S] : k \in 0..n}

Frames(cols, rowset, n) == {[cols |-> cols, rows |-> rs] : rs \in Seqs(rowset, n)}

S_7 == <<"7">>
S_5 == <<"5">>
S_P5 == <<"P", "5">>
S_A1 == <<"A", "1">>
S_A2 == <<"A", "2">>
S_CUST_0007 == CUST_ \o <<"0", "0", "0", "7">>
S_CUST_0009 == CUST_ \o <<"0", "0", "0", "9">>
S_CUST_7 == CUST_ \o S_7
S_email_a == <<"a", "@", "x">>

CustomerRow(cust_id, email) == [cust_id |-> cust_id, email |-> email]

(* Ids that are numeric, prefixed, unprintable, free text or missing, with  *)
(* emails that are equal after cleaning, empty or missing.                 *)
CustomerRows ==
    {CustomerRow(Str(S_7), Str(S_email_a)),
     CustomerRow(Str(<<" ", "c", "u", "s", "t", "_", "0", "0", "0", "7", " ">>),
                 Str(<<"A", "@", "X", " ">>)),
     CustomerRow(Str(<<"a", "b", " ", " ", "1">>), Str(S_email_a)),
     CustomerRow(Str(<<"a", "b", " ", " ", "1">>), Null),
     CustomerRow(Str(S_7), Str(<<>>)),
     CustomerRow(Str(<<NP>>), Null),
     CustomerRow(Null, Str(<<>>)),
     CustomerRow(Null, Str(<<"b", "@", "x">>)),
     CustomerRow(Str(<<"c", "u", "s", "t", "_", "u", "n", "k", "n", "o", "w", "n", "_", "0">>), Null)}

CustomerFrames ==
    Frames({"cust_id", "email"}, CustomerRows, MaxCustomerRows)
    \cup Frames({"customer_id", "email"},
                [customer_id : {Null, Num(7), Num(12345), Str(<<" ", "7">>)},
                 email : {Null, Str(S_email_a), Str(<<"b", "@", "x">>)}], MaxRows)
    \cup Frames({"customer_id", "CustomerID_numeric"},
                [customer_id : {Null, Num(7), Str(<<>>), Str(<<"x", "1">>)},
                 CustomerID_numeric : {Null, Num(7), Num(8)}], MaxRows)
    \cup Frames({"id", "user_id"},
                [id : {Null, Num(7), Str(<<"k", "9">>)}, user_id : {Null, Str(<<"u", "1">>)}],
                MaxRows)

ProductFrames ==
    Frames({"product_id", "item_id"},
           [product_id : {Null, Str(S_P5), Str(<<"p", "5", " ">>), Str(<<NP>>), Str(S_5)},
            item_id : {Null, Num(5), Str(<<"6">>)}], MaxRows)

S_ZZ == <<"Z", "Z">>
S_a1 == <<"a", "1">>
S_CLI_7 == CLI_ \o S_7
S_CLI_0007 == CLI_ \o <<"0", "0", "0", "7">>
S_ITM_5 == ITM_ \o S_5

ReconCols == {"transaction_ref", "client_reference", "item_reference",
              "quantity_ordered", "unit_cost", "discount_applied"}

ReconRow(order, client, item, quantity, price, discount) ==
    [transaction_ref |-> order, client_reference |-> client, item_reference |-> item,
     quantity_ordered |-> quantity, unit_cost |-> price, discount_applied |-> discount]

(* One well-formed line and lines that differ from it in one reference. *)
ReconRows ==
    {ReconRow(Str(S_a1), Str(S_CLI_0007), Str(S_ITM_5), Num(2), Num(10), Num(0)),
     ReconRow(Str(S_A1), Str(<<"c", "u", "s", "t", "_", "0", "0", "0", "7">>), Str(S_P5),
              Num(1), Num(5), Num(1)),
     ReconRow(Str(S_A1), Str(S_CLI_7), Str(S_ITM_5), Num(1), Num(5), Num(1)),
     ReconRow(Str(S_A1), Str(S_CUST_0009), Str(S_ITM_5), Num(1), Num(5), Num(1)),
     ReconRow(Str(S_A1), Null, Str(S_ITM_5), Num(1), Num(5), Num(1)),
     ReconRow(Str(S_A1), Str(S_CLI_0007), Str(S_ZZ), Num(1), Num(5), Num(1)),
     ReconRow(Str(S_A1), Str(S_CLI_0007), Null, Num(1), Num(5), Num(1)),
     ReconRow(Str(S_A1), Str(S_CLI_0007), Str(S_5), Num(1), Num(5), Num(1)),
     ReconRow(Null, Str(S_CLI_0007), Str(S_ITM_5), Num(1), Num(5), Num(1)),
     ReconRow(Str(S_A2), Str(S_CLI_0007), Str(S_ITM_5), Str(<<"$", "3">>), Num(4), Null),
     ReconRow(Str(S_A2), Str(S_CLI_0007), Str(ITM_ \o <<"9">>), Num(1), Num(5), Num(1))}

UnstructuredCols == {"order_id", "cust_id", "product_id", "item_id",
                     "quantity", "unit_price", "discount"}

UnstructuredRow(order, cust, product, item, quantity, price, discount) ==
    [order_id |-> order, cust_id |-> cust, product_id |-> product, item_id |-> item,
     quantity |-> quantity, unit_price |-> price, discount |-> discount]

UnstructuredRows ==
    {UnstructuredRow(Str(S_a1), Str(S_7), Str(<<"p", "5">>), Null, Num(2), Num(10), Num(0)),
     UnstructuredRow(Str(S_A1), Str(S_CUST_0007), Null, Num(5), Num(1), Num(5), Num(1)),
     UnstructuredRow(Str(S_A1), Str(S_CUST_0009), Str(S_P5), Null, Num(1), Num(5), Num(1)),
     UnstructuredRow(Str(S_A1), Null, Str(S_P5), Null, Num(1), Num(5), Num(1)),
     UnstructuredRow(Str(S_A1), Str(S_7), Str(S_ZZ), Null, Num(1), Num(5), Num(1)),
     UnstructuredRow(Str(S_A1), Str(S_7), Null, Str(S_5), Num(1), Num(5), Num(1)),
     UnstructuredRow(Null, Str(S_7), Str(S_P5), Null, Num(1), Num(5), Num(1)),
     UnstructuredRow(Str(S_A2), Str(S_7), Str(S_ZZ), Num(9), Null, Str(<<"4">>), Null)}

(* A source without a 'cust_id' column: the numeric 'customer_id' is used. *)
UnstructuredNumericCols == {"order_id", "customer_id", "item_id", "quantity", "unit_price"}

UnstructuredNumericRows ==
    [order_id : {Str(S_A1)}, customer_id : {Null, Num(7), Num(9)}, item_id : {Num(5)},
     quantity : {Num(1)}, unit_price : {Num(5)}]

(* Batches without columns, as read from a file of empty records: rows    *)
(* that have no field.                                                     *)
(* Lines that carry a supplied line total: one that differs from quantity  *)
(* times unit price, one that equals it and one that is missing.           *)
WithTotal(row, name, total) ==
    [c \in DOMAIN row \cup {name} |-> IF c = name THEN total ELSE row[c]]

UnstructuredTotalRows ==
    {WithTotal(UnstructuredRow(Str(S_A1), Str(S_7), Str(S_P5), Null, Num(2), Num(10), Num(0)),
               "total_amount", total) : total \in {Num(25), Num(20), Null}}

ReconTotalRows ==
    {WithTotal(ReconRow(Str(S_A1), Str(S_CLI_0007), Str(S_P5), Num(2), Num(10), Num(0)),
               "total_value", total) : total \in {Num(25), Num(20), Null}}

ColumnlessFrames == Frames({}, {<<>>}, MaxRows)

(* Known id sets and remap tables handed to a resolver. *)
ResolverEnvs ==
    {[cust_ids |-> {S_CUST_0007}, prod_ids |-> {S_P5},
      prod_map |-> [x \in {S_5, S_P5} |-> S_P5]],
     [cust_ids |-> {S_CUST_0007, S_CUST_7}, prod_ids |-> {},
      prod_map |-> [x \in {S_5} |-> S_P5]],
     [cust_ids |-> {}, prod_ids |-> {S_5, S_P5}, prod_map |-> EmptyDict],
     [cust_ids |-> {S_CUST_0007}, prod_ids |-> {S_5}, prod_map |-> EmptyDict]}

ResolverInputs(fn, frames) ==
    {[fn |-> fn, df |-> df, cust_ids |-> e.cust_ids, prod_ids |-> e.prod_ids,
      prod_map |-> e.prod_map] : df \in frames, e \in ResolverEnvs}

(* Item rows handed to the aggregator directly. *)
ItemRow(order, customer, quantity, price, discount, shipping, tax, paid) ==
    [order_id |-> order, customer_id |-> customer, product_id |-> Str(S_P5),
     quantity |-> quantity, unit_price |-> price,
     line_item_total_value |-> num_mul(quantity, price),
     line_item_discount |-> discount, line_item_shipping_fee |-> shipping,
     line_item_tax |-> tax, line_item_amount_paid_final |-> paid, line |-> 0]

ItemRows ==
    {ItemRow(o, c, Num(2), Num(10), Num(0), Num(3), Num(2), Num(25)) :
        o \in {Null, Str(S_A1), Str(S_A2)}, c \in {Null, Str(S_CUST_0007), Str(S_CUST_0009)}}
    \cup {ItemRow(o, c, Num(1), Num(5), Num(1), Null, Null, Null) :
        o \in {Null, Str(S_A1), Str(S_A2)}, c \in {Null, Str(S_CUST_0007), Str(S_CUST_0009)}}

(* The ways a sequence of item rows reaches the aggregator: one batch, one  *)
(* batch per row, or two batches around an empty one.                      *)
BatchLists(rs) ==
    {<<rs>>, [i \in 1..Len(rs) |-> <<rs[i]>>],
     IF rs = <<>> THEN <<rs, rs>>
     ELSE <<SubSeq(rs, 1, 1), <<>>, SubSeq(rs, 2, Len(rs))>>}

CombineInputs ==
    {[fn |-> "etl_combine_orders_and_create_orders_table", df_items_list |-> l,
      cust_ids |-> c] :
        l \in UNION {BatchLists(rs) : rs \in Seqs(ItemRows, MaxItems)},
        c \in {{}, {S_CUST_0007}}}

(* Raw values of a categorical column. *)
CategoricalValues ==
    {Null, Num(1)} \cup {Str(s) : s \in {<<>>,
                            <<" ", " ">>,
                            <<"m">>,
                            <<"F", "e", "m", "a", "l", "e">>,
                            <<"N", "o", "n", "e">>,
                            <<"a", "c", "t", "i", "v", "e">>,
                            <<"c", "o", "m", "p", "l", "e", "t", "e", "d">>,
                            <<"i", "n", "_", "t", "r", "a", "n", "s", "i", "t">>,
                            <<"l", "a">>,
                            <<"S", "p", "r", "i", "n", "g", "f", "i", "e", "l", "d">>,
                            <<"n", "y">>,
                            <<"T", "e", "x", "a", "s">>,
                            <<"z", "z">>,
                            <<"x">>}}

CategoricalInputs ==
    {[fn |-> "standardize_categorical", attribute |-> a, value |-> v] :
        a \in {"payment_status", "delivery_status"}, v \in CategoricalValues}
    \cup {[fn |-> "etl_customers_categoricals", value |-> v] : v \in CategoricalValues}

(* Raw phone numbers and postal codes, and the defaults a caller supplies. *)
S_NA == <<"N", "/", "A">>

PhoneValues ==
    {Null, Num(5551234)} \cup {Str(s) : s \in {<<"5", "5", "5", "-", "1", "2", "3", "-", "4", "5", "6", "7">>,
                      <<"(", "5", "5", "5", ")", " ", "1", "2", "3", " ", "4", "5", "6", "7">>,
                      <<"1", "5", "5", "5", "1", "2", "3", "4", "5", "6", "7">>,
                      <<"1", "-", "5", "5", "5", "-", "1", "2", "3", "-", "4", "5", "6", "7">>,
                      <<"2", "5", "5", "5", "1", "2", "3", "4", "5", "6", "7">>,
                      <<"a", "b", "c">>,
                      <<>>,
                      <<"5", "5", "5", "1", "2", "3", "4">>,
                      <<"5", "5", "5", "1", "2", "3">>,
                      <<"4", "4", "2", "0", "7", "9", "4", "6", "0", "9", "5", "8">>,
                      <<"1", "2", "3", "4", "5", "6", "7", "8", "9", "0", "1", "2", "3", "4", "5">>,
                      <<"1", "2", "3", "4", "5", "6", "7", "8", "9", "0", "1", "2", "3", "4", "5", "6">>}}

PostalValues ==
    {Null, Num(12345)} \cup {Str(s) : s \in {<<"1", "2", "3", "4", "5", "-", "6", "7", "8", "9">>,
                      <<"1", "2", "3", "4", "5", ".", "0">>,
                      <<"1", "2", "3", "4">>,
                      <<"1", "2", "3", "4", "5">>,
                      <<" ", "1", "2", "3", "4", "5", " ">>,
                      <<"1", "2", "3", "4", "5", "6", "7", "8", "9">>,
                      <<"a", "b">>,
                      <<"A", "1", "B", " ", "2", "C", "3">>,
                      <<"1", "2", "3">>}}

NumericValues ==
    {Null, Inf, Num(7)} \cup {Str(s) : s \in {<<>>,
                                     <<"a", "b", "c">>,
                                     <<"7">>,
                                     <<"$", "1", ",", "0", "0", "0">>,
                                     <<"-", "1", "2">>,
                                     <<"i", "n", "f">>,
                                     <<"-", "I", "n", "f", "i", "n", "i", "t", "y">>,
                                     <<"1", "e", "9", "9", "9">>,
                                     <<"1", "e", "2">>,
                                     <<"+", "n", "a", "n">>,
                                     <<"N", "/", "A">>}}

BooleanValues ==
    {Null, Inf, Num(1), Bool(TRUE)} \cup {Str(s) : s \in {<<>>,
                                                 <<"Y", "e", "s">>,
                                                 <<"o", "f", "f">>,
                                                 <<"1">>,
                                                 <<"0">>,
                                                 <<"2">>,
                                                 <<"m", "a", "y", "b", "e">>,
                                                 <<"i", "n", "f">>}}

StringValues ==
    {Null, Inf, Num(7), Str(<<>>), Str(<<" ">>), Str(<<NP>>), Str(<<" ", "a", TAB, " ", "b", NP>>)}

NormalizerInputs ==
    {[fn |-> "to_numeric_safe", value |-> v, target_type |-> t, default |-> d] :
        v \in NumericValues, t \in {"int", "float"}, d \in {Null, Num(0)}}
    \cup {[fn |-> "standardize_boolean_strict", value |-> v, default |-> d] :
        v \in BooleanValues, d \in {Null, Bool(FALSE)}}
    \cup {[fn |-> "clean_string", value |-> v, case |-> c, default |-> d] :
        v \in StringValues, c \in {"none", "upper", "title"}, d \in {Null, Str(S_NA)}}
    \cup
    {[fn |-> "standardize_phone_strict", value |-> v, default |-> d] :
        v \in PhoneValues, d \in {Null, Str(S_NA)}}
    \cup {[fn |-> "standardize_postal_code", value |-> v, country |-> c, default |-> d] :
        v \in PostalValues, c \in {"US", "CA"}, d \in {Null, Str(S_NA)}}

(***************************************************************************)
(* State.  op, arg and ret are the position, the arguments and the result  *)
(* of the last call; Customers, Products, Orders and OrderItems are the    *)
(* rows of the database tables and SourceFileRegistry the registry of the  *)
(* uploaded files; processed counts the files run so far and               *)
(* completed is the set of entity types whose file processing has run to   *)
(* completion.                                                             *)
(***************************************************************************)
VARIABLES op, arg, ret, Customers, Products, Orders, OrderItems, SourceFileRegistry,
          processed, completed

store == <<Customers, Products, Orders, OrderItems, SourceFileRegistry, processed, completed>>
vars == <<op, arg, ret, store>>

(***************************************************************************)
(* Direct calls of the ETL functions: the initial state holds the          *)
(* arguments of one call, the action applies the function.                 *)
(***************************************************************************)
(* Item statuses of one order, in input order; a line of a reconciliation  *)
(* batch has no overall_item_status_derived.                               *)
MaxStatuses == 3
S_SHIPPED == <<"S", "H", "I", "P", "P", "E", "D">>
S_DELIVERED == <<"D", "E", "L", "I", "V", "E", "R", "E", "D">>
StatusInputs ==
    {[fn |-> "order_status", x |-> x] :
        x \in Seqs({Str(S_SHIPPED), Str(S_DELIVERED), Null}, MaxStatuses) \ {<<>>}}

(* Birth dates, provided ages and days on which the batch is processed. *)
Date(year, month, day) == [year |-> year, month |-> month, day |-> day]

AgeInputs ==
    {[fn |-> "age_final", birth_date_final |-> b, has_age_column |-> c, age |-> a,
      today |-> t] :
        b \in {Null, Str(<<"2", "0", "0", "0", "-", "0", "3", "-", "1", "5">>), Str(<<"2", "0", "0", "0", "-", "0", "2", "-", "2", "9">>)},
        c \in BOOLEAN,
        a \in {Null, Num(26), Num(30), Str(<<"4", "1">>), Str(<<"x">>)},
        t \in {Date(2026, 3, 14), Date(2026, 3, 15), Date(2026, 11, 4), Date(2028, 2, 29)}}

(* What the environment of one AI call can be: the module globals as a     *)
(* fresh import or an earlier successful configuration leave them, the     *)
(* key in the environment or typed at the prompt, and the service raising, *)
(* answering with a blocked response or answering with a text.             *)
AiGlobals ==
    {[gemini_model |-> Null, gemini_api_key_provided |-> FALSE],
     [gemini_model |-> Str(S_gemini_model), gemini_api_key_provided |-> TRUE]}

AiEnvironments ==
    [api_key : BOOLEAN, prompt : {"key", "empty", "RuntimeError", "EOFError"},
     configure : {"ok", "raises"}]

ResponseTexts ==
    {S_object,
     <<FENCE, "j", "s", "o", "n", " ", "{", "}", " ", FENCE>>,
     <<FENCE>> \o S_object \o <<FENCE>>,
     <<"o", "k", " ", "{", "}", " ", "!">>,
     <<"n", "o">>,
     <<"x", "{", "y", "}">>,
     <<FENCE, "n", "o", FENCE>>,
     S_array,
     S_null,
     <<"7">>,
     <<>>}

AiResponses ==
    {[kind |-> "raises"], [kind |-> "blocked"]}
    \cup {[kind |-> "text", text |-> text] : text \in ResponseTexts}

AiInputs ==
    {[fn |-> "get_ai_schema_mapping_suggestions", gemini_model |-> g.gemini_model,
      gemini_api_key_provided |-> g.gemini_api_key_provided, env |-> env, api |-> api] :
        g \in AiGlobals, env \in AiEnvironments, api \in AiResponses}

CallInputs ==
    {[fn |-> "etl_customers", df |-> df] : df \in CustomerFrames \cup ColumnlessFrames}
    \cup {[fn |-> "etl_products", df |-> df] : df \in ProductFrames \cup ColumnlessFrames}
    \cup ResolverInputs("etl_order_items_from_reconciliation", ColumnlessFrames)
    \cup ResolverInputs("etl_order_items_from_unstructured", ColumnlessFrames)
    \cup ResolverInputs("etl_order_items_from_reconciliation", Frames(ReconCols, ReconRows, MaxRows))
    \cup ResolverInputs("etl_order_items_from_unstructured",
                        Frames(UnstructuredCols, UnstructuredRows, MaxRows)
                        \cup Frames(UnstructuredNumericCols, UnstructuredNumericRows, MaxRows))
    \cup ResolverInputs("etl_order_items_from_reconciliation",
                        Frames(ReconCols \cup {"total_value"}, ReconTotalRows, MaxRows))
    \cup ResolverInputs("etl_order_items_from_unstructured",
                        Frames(UnstructuredCols \cup {"total_amount"},
                               UnstructuredTotalRows, MaxRows))
    \cup CombineInputs
    \cup CategoricalInputs
    \cup NormalizerInputs
    \cup AiInputs
    \cup StatusInputs
    \cup AgeInputs

EmptyStore ==
    /\ Customers = <<>> /\ Products = <<>> /\ Orders = <<>> /\ OrderItems = <<>>
    /\ SourceFileRegistry = <<>>
    /\ processed = 0
    /\ completed = {}

Init ==
    /\ op = "call"
    /\ arg \in CallInputs
    /\ ret = Null
    /\ EmptyStore

Call_etl_customers ==
    /\ op = "call" /\ arg.fn = "etl_customers"
    /\ op' = "return"
    /\ ret' = [canon |-> [i \in 1..Len(arg.df.rows) |-> customer_id_canon(arg.df, i)],
               table |-> etl_customers(arg.df)]
    /\ UNCHANGED <<arg, store>>

Call_etl_products ==
    /\ op = "call" /\ arg.fn = "etl_products"
    /\ op' = "return"
    /\ ret' = etl_products(arg.df)
    /\ UNCHANGED <<arg, store>>

Call_etl_order_items_from_reconciliation ==
    /\ op = "call" /\ arg.fn = "etl_order_items_from_reconciliation"
    /\ op' = "return"
    /\ ret' = etl_order_items_from_reconciliation(arg.df, arg.cust_ids, arg.prod_ids,
                                                  arg.prod_map)
    /\ UNCHANGED <<arg, store>>

Call_etl_order_items_from_unstructured ==
    /\ op = "call" /\ arg.fn = "etl_order_items_from_unstructured"
    /\ op' = "return"
    /\ ret' = etl_order_items_from_unstructured(arg.df, arg.cust_ids, arg.prod_ids,
                                                arg.prod_map)
    /\ UNCHANGED <<arg, store>>

Call_etl_combine_orders_and_create_orders_table ==
    /\ op = "call" /\ arg.fn = "etl_combine_orders_and_create_orders_table"
    /\ op' = "return"
    /\ ret' = etl_combine_orders_and_create_orders_table(arg.df_items_list, arg.cust_ids)
    /\ UNCHANGED <<arg, store>>

(* A run stamps every row with the time it started (pipeline_timestamp,    *)
(* written to last_updated_pipeline); the column is constant over the run  *)
(* and no sort or dedup reads it.                                          *)
MaxTimestamp == 2

(* A stamp that also writes the time of the run into the id column. *)
last_updated_pipeline_into_id(rows, id_column, pipeline_timestamp) ==
    [i \in 1..Len(rows) |->
        [f \in DOMAIN rows[i] \cup {"last_updated_pipeline"} |->
            IF f \in {"last_updated_pipeline", id_column}
            THEN Num(pipeline_timestamp) ELSE rows[i][f]]]

last_updated_pipeline(rows, id_column, pipeline_timestamp) ==
    [i \in 1..Len(rows) |->
        [f \in DOMAIN rows[i] \cup {"last_updated_pipeline"} |->
            IF f = "last_updated_pipeline" THEN Num(pipeline_timestamp) ELSE rows[i][f]]]

(* The same raw batch is run through etl_customers a second time, at the   *)
(* same or a later time: ret keeps both outputs.                           *)
Rerun_etl_customers ==
    /\ op = "return" /\ arg.fn = "etl_customers"
    /\ op' = "rerun"
    /\ \E first_ts \in 1..MaxTimestamp, second_ts \in 1..MaxTimestamp :
        /\ first_ts <= second_ts
        /\ ret' = [id_column |-> "customer_id",
                   first |-> last_updated_pipeline(ret.table, "customer_id", first_ts),
                   second |-> last_updated_pipeline(etl_customers(arg.df), "customer_id",
                                                    second_ts)]
    /\ UNCHANGED <<arg, store>>

Rerun_etl_products ==
    /\ op = "return" /\ arg.fn = "etl_products"
    /\ op' = "rerun"
    /\ \E first_ts \in 1..MaxTimestamp, second_ts \in 1..MaxTimestamp :
        /\ first_ts <= second_ts
        /\ ret' = [id_column |-> "product_id",
                   first |-> last_updated_pipeline(ret.table, "product_id", first_ts),
                   second |-> last_updated_pipeline(etl_products(arg.df).table, "product_id",
                                                    second_ts)]
    /\ UNCHANGED <<arg, store>>

(* The resolvers' calls of standardize_categorical for the payment and the *)
(* delivery status of a line.                                              *)
Call_standardize_categorical ==
    /\ op = "call" /\ arg.fn = "standardize_categorical"
    /\ op' = "return"
    /\ ret' = standardize_categorical(arg.value,
                                      IF arg.attribute = "payment_status"
                                      THEN PAYMENT_STATUS_MAP ELSE ORDER_DELIVERY_STATUS_MAP,
                                      DEFAULT_UNKNOWN_CATEGORICAL, "upper")
    /\ UNCHANGED <<arg, store>>

(* The categorical columns etl_customers derives from one raw value. *)
Call_etl_customers_categoricals ==
    /\ op = "call" /\ arg.fn = "etl_customers_categoricals"
    /\ op' = "return"
    /\ ret' = [gender |-> gender_final(arg.value), status |-> status_final(arg.value),
               city |-> address_city_final(arg.value),
               state |-> address_state_final(arg.value)]
    /\ UNCHANGED <<arg, store>>

Call_clean_string ==
    /\ op = "call" /\ arg.fn = "clean_string"
    /\ op' = "return"
    /\ ret' = clean_string(arg.value, arg.case, arg.default)
    /\ UNCHANGED <<arg, store>>

Call_to_numeric_safe ==
    /\ op = "call" /\ arg.fn = "to_numeric_safe"
    /\ op' = "return"
    /\ ret' = to_numeric_safe(arg.value, arg.target_type, arg.default)
    /\ UNCHANGED <<arg, store>>

Call_standardize_boolean_strict ==
    /\ op = "call" /\ arg.fn = "standardize_boolean_strict"
    /\ op' = "return"
    /\ ret' = standardize_boolean_strict(arg.value, arg.default)
    /\ UNCHANGED <<arg, store>>

Call_standardize_phone_strict ==
    /\ op = "call" /\ arg.fn = "standardize_phone_strict"
    /\ op' = "return"
    /\ ret' = standardize_phone_strict(arg.value, arg.default)
    /\ UNCHANGED <<arg, store>>

Call_standardize_postal_code ==
    /\ op = "call" /\ arg.fn = "standardize_postal_code"
    /\ op' = "return"
    /\ ret' = standardize_postal_code(arg.value, arg.country, arg.default)
    /\ UNCHANGED <<arg, store>>

Call_get_ai_schema_mapping_suggestions ==
    /\ op = "call" /\ arg.fn = "get_ai_schema_mapping_suggestions"
    /\ op' = "return"
    /\ ret' = get_ai_schema_mapping_suggestions(arg.gemini_model,
                                                arg.gemini_api_key_provided, arg.env, arg.api)
    /\ UNCHANGED <<arg, store>>

Call_order_status ==
    /\ op = "call" /\ arg.fn = "order_status"
    /\ op' = "return"
    /\ ret' = order_status(arg.x)
    /\ UNCHANGED <<arg, store>>

Call_etl_customers_age ==
    /\ op = "call" /\ arg.fn = "age_final"
    /\ op' = "return"
    /\ ret' = age_final(arg.birth_date_final, arg.has_age_column, arg.age, arg.today)
    /\ UNCHANGED <<arg, store>>

Next ==
    \/ Call_etl_customers
    \/ Rerun_etl_customers
    \/ Call_etl_products
    \/ Rerun_etl_products
    \/ Call_etl_order_items_from_reconciliation
    \/ Call_etl_order_items_from_unstructured
    \/ Call_etl_combine_orders_and_create_orders_table
    \/ Call_standardize_categorical
    \/ Call_etl_customers_categoricals
    \/ Call_clean_string
    \/ Call_to_numeric_safe
    \/ Call_standardize_boolean_strict
    \/ Call_standardize_phone_strict
    \/ Call_standardize_postal_code
    \/ Call_get_ai_schema_mapping_suggestions
    \/ Call_order_status
    \/ Call_etl_customers_age

Spec == Init /\ [][Next]_vars
(***************************************************************************)
(* etl_runner: one registered file at a time is read, transformed and      *)
(* appended to the tables; an order file is resolved against the ids the   *)
(* tables hold when it is processed.                                       *)
(***************************************************************************)
MaxFiles == 4

(* SELECT DISTINCT col FROM table WHERE col IS NOT NULL, as a set of str. *)
fetch_distinct_business_entity_ids(table, business_id_column) ==
    {py_str(table[i][business_id_column]) :
        i \in {j \in 1..Len(table) : ~IsNull(table[j][business_id_column])}}

(* The loop over the Products rows that carry a source_item_id_int, taken  *)
(* in the order of the table.                                              *)
RECURSIVE product_id_map_for_orders(_, _)
product_id_map_for_orders(products, n) ==
    IF n = 0 THEN EmptyDict
    ELSE LET d == product_id_map_for_orders(products, n - 1)
             row == products[n]
         IN IF ~IsNull(row.source_item_id_int)
            THEN dict_set(d, int_to_str(row.source_item_id_int.n), py_str(row.product_id))
            ELSE d

generate_current_id_maps_from_db(customers, products) ==
    LET existing_product_ids == fetch_distinct_business_entity_ids(products, "product_id")
        by_item == product_id_map_for_orders(products, Len(products))
    IN [cust_ids |-> fetch_distinct_business_entity_ids(customers, "customer_id"),
        prod_ids |-> existing_product_ids,
        prod_map |-> [x \in DOMAIN by_item \cup existing_product_ids |->
                         IF x \in DOMAIN by_item THEN by_item[x] ELSE x]]

(* The files a run can register. *)
CustomerFiles ==
    {[cols |-> {"customer_id", "email"},
      rows |-> <<[customer_id |-> Num(7), email |-> Str(S_email_a)]>>],
     [cols |-> {"cust_id", "email"}, rows |-> <<CustomerRow(Str(<<"9">>), Null)>>]}

ProductFiles ==
    {[cols |-> {"product_id", "item_id"},
      rows |-> <<[product_id |-> Str(<<"p", "5", " ">>), item_id |-> Num(5)]>>],
     [cols |-> {"product_id", "item_id"},
      rows |-> <<[product_id |-> Str(S_ZZ), item_id |-> Null]>>]}

Recon_A1_first == ReconRow(Str(S_a1), Str(S_CLI_0007), Str(S_ITM_5), Num(2), Num(10), Num(0))
Recon_A1_second ==
    ReconRow(Str(S_A1), Str(<<"c", "u", "s", "t", "_", "0", "0", "0", "7">>), Str(S_P5),
             Num(1), Num(5), Num(1))
Recon_A1_CLI_7 == ReconRow(Str(S_A1), Str(S_CLI_7), Str(S_ITM_5), Num(1), Num(5), Num(1))
Recon_A1_ZZ == ReconRow(Str(S_A1), Str(S_CLI_0007), Str(S_ZZ), Num(1), Num(5), Num(1))
Recon_A2_ITM_9 ==
    ReconRow(Str(S_A2), Str(S_CLI_0007), Str(ITM_ \o <<"9">>), Num(1), Num(5), Num(1))

ReconFiles ==
    {[cols |-> ReconCols, rows |-> rs] :
        rs \in {<<Recon_A1_first, Recon_A1_second>>, <<Recon_A1_CLI_7>>,
                <<Recon_A1_first, Recon_A1_ZZ>>, <<Recon_A2_ITM_9>>,
                <<Recon_A1_first, Recon_A2_ITM_9>>}}

Unstructured_A1_first ==
    UnstructuredRow(Str(S_a1), Str(S_7), Str(<<"p", "5">>), Null, Num(2), Num(10), Num(0))
Unstructured_A1_item ==
    UnstructuredRow(Str(S_A1), Str(S_CUST_0007), Null, Num(5), Num(1), Num(5), Num(1))
Unstructured_A1_ZZ ==
    UnstructuredRow(Str(S_A1), Str(S_7), Str(S_ZZ), Null, Num(1), Num(5), Num(1))
Unstructured_A2_none ==
    UnstructuredRow(Str(S_A2), Str(S_7), Str(<<"Q", "1">>), Num(9), Null, Str(<<"4">>), Null)

UnstructuredFiles ==
    {[cols |-> UnstructuredCols, rows |-> rs] :
        rs \in {<<Unstructured_A1_first, Unstructured_A1_item>>,
                <<Unstructured_A1_item, Unstructured_A1_ZZ>>,
                <<Unstructured_A2_none>>,
                <<Unstructured_A1_first, Unstructured_A2_none>>}}

(* run_etl_for_registered_file: the processing_status written to the        *)
(* SourceFileRegistry row of the file after its processing function        *)
(* returned success.                                                       *)
new_status(success) == IF success THEN "processed" ELSE "error_processing"

InitRunner ==
    /\ op = "idle"
    /\ arg = Null
    /\ ret = Null
    /\ EmptyStore

process_and_load_customer_file ==
    /\ processed < MaxFiles
    /\ \E df_raw \in CustomerFiles :
        LET df_cleaned == IF df_empty(df_raw) THEN <<>> ELSE etl_customers(df_raw) IN
        /\ arg' = [fn |-> "process_and_load_customer_file", df |-> df_raw]
        /\ ret' = [success |-> df_cleaned # <<>>, table |-> df_cleaned,
                   status |-> new_status(df_cleaned # <<>>)]
        /\ Customers' = Customers \o df_cleaned
    /\ op' = "return"
    /\ processed' = processed + 1
    /\ completed' = completed \cup {"customer"}
    /\ UNCHANGED <<Products, Orders, OrderItems, SourceFileRegistry>>

process_and_load_product_file ==
    /\ processed < MaxFiles
    /\ \E df_raw \in ProductFiles :
        LET df_cleaned == IF df_empty(df_raw) THEN <<>> ELSE etl_products(df_raw).table IN
        /\ arg' = [fn |-> "process_and_load_product_file", df |-> df_raw]
        /\ ret' = [success |-> df_cleaned # <<>>, table |-> df_cleaned,
                   status |-> new_status(df_cleaned # <<>>)]
        /\ Products' = Products \o df_cleaned
    /\ op' = "return"
    /\ processed' = processed + 1
    /\ completed' = completed \cup {"product"}
    /\ UNCHANGED <<Customers, Orders, OrderItems, SourceFileRegistry>>

(* df_items of process_and_load_order_file for the given ids. *)
order_items_of(entity_type, df_raw, ids) ==
    IF df_empty(df_raw) THEN <<>>
    ELSE IF entity_type = "order_items_reconciliation"
    THEN etl_order_items_from_reconciliation(df_raw, ids.cust_ids, ids.prod_ids, ids.prod_map)
    ELSE etl_order_items_from_unstructured(df_raw, ids.cust_ids, ids.prod_ids, ids.prod_map)

process_and_load_order_file ==
    /\ processed < MaxFiles
    /\ \E entity_type \in {"order_items_reconciliation", "order_items_unstructured"} :
       \E df_raw \in IF entity_type = "order_items_reconciliation"
                     THEN ReconFiles ELSE UnstructuredFiles :
        LET ids == generate_current_id_maps_from_db(Customers, Products)
            df_items == order_items_of(entity_type, df_raw, ids)
            final == IF df_items = <<>> THEN [items |-> <<>>, orders |-> <<>>]
                     ELSE etl_combine_orders_and_create_orders_table(<<df_items>>, ids.cust_ids)
        IN /\ arg' = [fn |-> "process_and_load_order_file", entity_type |-> entity_type,
                      df |-> df_raw]
           /\ ret' = [success |-> df_items # <<>>, ids |-> ids, df_items |-> df_items,
                      items |-> final.items, orders |-> final.orders,
                      status |-> new_status(df_items # <<>>),
                      completed_before |-> completed]
           /\ Orders' = Orders \o final.orders
           /\ OrderItems' = OrderItems \o final.items
    /\ op' = "return"
    /\ processed' = processed + 1
    /\ completed' = completed \cup {"order"}
    /\ UNCHANGED <<Customers, Products, SourceFileRegistry>>

NextRunner ==
    \/ process_and_load_customer_file
    \/ process_and_load_product_file
    \/ process_and_load_order_file

SpecRunner == InitRunner /\ [][NextRunner]_vars

(***************************************************************************)
(* The SourceFileRegistry and run_etl_for_registered_file.  A row of the   *)
(* registry is [file_path, entity_type_guess, processing_status,           *)
(* error_message].  file_id and file_path are both unique keys of a row    *)
(* (PRIMARY KEY, UNIQUE): the registry is a function from the path to the  *)
(* row and a file_id is the path of its row.  The files on disk are named  *)
(* by their path.  db_error is the statement of the call, if               *)
(* any, on which the database raises.  An entity type that is None or     *)
(* empty is "": the code tests its truth only.                             *)
(***************************************************************************)
MaxProcessings == 3

FilePaths == {"customers.csv", "customers_inf.csv", "products.json", "recon_orders.csv"}

(* What the upload page guesses from a file, when it guesses. *)
entity_type_of(file_path) ==
    CASE file_path \in {"customers.csv", "customers_inf.csv"} -> "customer"
      [] file_path = "products.json" -> "product"
      [] OTHER -> "order"

load_single_raw_data(file_path) ==
    CASE file_path = "customers.csv" ->
             [cols |-> {"customer_id", "email"},
              rows |-> <<[customer_id |-> Num(7), email |-> Str(S_email_a)]>>]
      [] file_path = "customers_inf.csv" ->
             [cols |-> {"customer_id", "email"},
              rows |-> <<[customer_id |-> Num(7), email |-> Str(S_email_a)],
                         [customer_id |-> Inf, email |-> Null]>>]
      [] file_path = "products.json" ->
             [cols |-> {"product_id", "item_id"},
              rows |-> <<[product_id |-> Str(<<"p", "5", " ">>), item_id |-> Num(5)]>>]
      [] OTHER -> [cols |-> ReconCols, rows |-> <<Recon_A1_first>>]

(* The apply of to_numeric_safe with target_type=int raises (line 85 of    *)
(* etl_customers, line 281 of etl_products).                               *)
etl_customers_raises(df) ==
    ~df_empty(df) /\ \E i \in 1..Len(df.rows) : IsRaised(source_customer_id_int_val(df, i))

etl_products_raises(df) ==
    ~df_empty(df) /\ \E i \in 1..Len(df.rows) : IsRaised(source_item_id_int_val(df, i))

Outcome(raised, success, message, customers, products, orders, items) ==
    [raised |-> raised, success |-> success, message |-> message, customers |-> customers,
     products |-> products, orders |-> orders, items |-> items]

Failed(message) == Outcome(FALSE, FALSE, message, <<>>, <<>>, <<>>, <<>>)

(* process_and_load_customer_file after the raw data was read (lines       *)
(* 33-39); the rows of the outcome are the rows appended to each table.    *)
customers_loaded(df_cleaned, load_raises) ==
    IF df_cleaned = <<>> THEN Failed("ETL resulted in empty data")
    ELSE IF load_raises THEN Failed("DB load error")
    ELSE Outcome(FALSE, TRUE, "Loaded customers", df_cleaned, <<>>, <<>>, <<>>)

customer_file_outcome(df_raw, load_raises) ==
    IF df_empty(df_raw) THEN Failed("Raw data empty")
    ELSE IF etl_customers_raises(df_raw)
    THEN Outcome(TRUE, FALSE, "OverflowError", <<>>, <<>>, <<>>, <<>>)
    ELSE customers_loaded(etl_customers(df_raw), load_raises)

(* process_and_load_product_file after the raw data was read (lines 44-50). *)
products_loaded(df_cleaned, load_raises) ==
    IF df_cleaned = <<>> THEN Failed("ETL resulted in empty data")
    ELSE IF load_raises THEN Failed("DB load error")
    ELSE Outcome(FALSE, TRUE, "Loaded products", <<>>, df_cleaned, <<>>, <<>>)

product_file_outcome(df_raw, load_raises) ==
    IF df_empty(df_raw) THEN Failed("Raw data empty")
    ELSE IF etl_products_raises(df_raw)
    THEN Outcome(TRUE, FALSE, "OverflowError", <<>>, <<>>, <<>>, <<>>)
    ELSE products_loaded(etl_products(df_raw).table, load_raises)

(* process_and_load_order_file after the raw data and the ids were read    *)
(* (lines 58-72).                                                          *)
orders_loaded(final, load_raises) ==
    IF load_raises THEN Failed("DB load error")
    ELSE Outcome(FALSE, TRUE, "Loaded orders, items", <<>>, <<>>, final.orders, final.items)

order_items_resolved(df_items, cust_ids, load_raises) ==
    IF df_items = <<>> THEN Failed("Order items ETL empty")
    ELSE orders_loaded(etl_combine_orders_and_create_orders_table(<<df_items>>, cust_ids),
                       load_raises)

order_file_outcome(df_raw, actual_order_type, ids, load_raises) ==
    IF df_empty(df_raw) THEN Failed("Raw data empty")
    ELSE order_items_resolved(order_items_of(actual_order_type, df_raw, ids), ids.cust_ids,
                              load_raises)

(* The dispatch of lines 98-107 on the raw data of the file and the        *)
(* tables as they stand.                                                   *)
dispatch(entity_type, file_path, df_raw, load_raises) ==
    CASE entity_type = "customer" -> customer_file_outcome(df_raw, load_raises)
      [] entity_type = "product" -> product_file_outcome(df_raw, load_raises)
      [] entity_type = "order" ->
             order_file_outcome(df_raw,
                                IF file_path \in {"recon_orders.csv"}
                                THEN "order_items_reconciliation"
                                ELSE "order_items_unstructured",
                                generate_current_id_maps_from_db(Customers, Products),
                                load_raises)
      [] OTHER -> Failed("No ETL process defined for entity type")

process_and_load(entity_type, file_path, load_raises) ==
    IF entity_type = "" THEN Failed("Entity type not specified")
    ELSE dispatch(entity_type, file_path, load_single_raw_data(file_path), load_raises)

(* Lines 30-38 of page 08: the files the page offers for processing. *)
get_files_for_processing_p08 ==
    {file_id \in DOMAIN SourceFileRegistry :
        SourceFileRegistry[file_id].processing_status \in
            {"raw_uploaded", "profiled", "error_processing", "error_entity_unknown",
             "error_schema_mismatch"}}

InitRegistry ==
    /\ op = "idle"
    /\ arg = Null
    /\ ret = Null
    /\ EmptyStore

register_uploaded_file_in_db ==
    /\ \E file_path \in FilePaths :
       \E entity_type_guess \in {entity_type_of(file_path), "unknown", ""} :
        LET row == [file_path |-> file_path, entity_type_guess |-> entity_type_guess,
                    processing_status |-> "raw_uploaded", error_message |-> Null]
        IN /\ arg' = [fn |-> "register_uploaded_file_in_db", file_path |-> file_path,
                      entity_type_guess |-> entity_type_guess]
           /\ SourceFileRegistry' =
                  [p \in DOMAIN SourceFileRegistry \cup {file_path} |->
                      IF p = file_path THEN row ELSE SourceFileRegistry[p]]
    /\ op' = "return"
    /\ ret' = [success |-> TRUE]
    /\ UNCHANGED <<Customers, Products, Orders, OrderItems, processed, completed>>

(* The button of page 08 (line 148) on an offered file, with the file's    *)
(* own entity type chosen or none: the whole of                            *)
(* run_etl_for_registered_file, the status update of lines 109-114 or      *)
(* 86-90 included.  An exception of the ETL functions leaves the call      *)
(* before the update; an exception of the update is only logged.           *)
status_updated(file_id, entity_type, done, db_error) ==
    IF done.raised \/ db_error = "status_update" THEN SourceFileRegistry
    ELSE [SourceFileRegistry EXCEPT
             ![file_id].processing_status = IF entity_type = "" THEN "error_entity_unknown"
                                            ELSE new_status(done.success),
             ![file_id].error_message = IF done.success THEN Null ELSE Str(done.message)]

run_etl_for_registered_file ==
    /\ processed < MaxProcessings
    /\ \E file_id \in get_files_for_processing_p08 :
       \E entity_type_override \in {entity_type_of(file_id), ""} :
       \E db_error \in {"none", "load", "status_update"} :
       \E entity_type \in {IF entity_type_override # "" THEN entity_type_override
                           ELSE SourceFileRegistry[file_id].entity_type_guess} :
       \E done \in {process_and_load(entity_type, SourceFileRegistry[file_id].file_path,
                                     db_error = "load")} :
           /\ arg' = [fn |-> "run_etl_for_registered_file", file_id |-> file_id,
                      entity_type_override |-> entity_type_override]
           /\ ret' = [success |-> done.success, message |-> done.message,
                      status_before |-> SourceFileRegistry[file_id].processing_status]
           /\ op' = IF done.raised THEN "raise" ELSE "return"
           /\ Customers' = Customers \o done.customers
           /\ Products' = Products \o done.products
           /\ Orders' = Orders \o done.orders
           /\ OrderItems' = OrderItems \o done.items
           /\ SourceFileRegistry' = status_updated(file_id, entity_type, done, db_error)
    /\ processed' = processed + 1
    /\ UNCHANGED completed

NextRegistry ==
    \/ register_uploaded_file_in_db
    \/ run_etl_for_registered_file

SpecRegistry == InitRegistry /\ [][NextRegistry]_vars

The_file == SourceFileRegistry[arg.file_id]

(* C30: every call of run_etl_for_registered_file on a registered file     *)
(* ends with the file's processing_status updated to the outcome:          *)
(* 'processed' with a null error_message exactly when the call reports     *)
(* success, otherwise 'error_processing' or 'error_entity_unknown' with    *)
(* the message stored; the status is not left at 'raw_uploaded', and the   *)
(* call was not made on a file in status 'processed'.                      *)
C30_StatusReflectsOutcome ==
    (op # "idle" /\ arg.fn = "run_etl_for_registered_file") =>
        /\ op = "return"
        /\ ret.success <=> (The_file.processing_status = "processed"
                            /\ The_file.error_message = Null)
        /\ ~ret.success =>
               /\ The_file.processing_status \in {"error_processing", "error_entity_unknown"}
               /\ The_file.error_message = Str(ret.message)
        /\ The_file.processing_status # "raw_uploaded"
        /\ ret.status_before # "processed"

(***************************************************************************)
(* Properties of the direct calls (specification Spec).                    *)
(***************************************************************************)
Returned(fn) == op = "return" /\ arg.fn = fn

Combined == Returned("etl_combine_orders_and_create_orders_table")

(* C1: the pair (OrderItems, Orders) returned by the aggregator is         *)
(* referentially closed: every returned item's order_id is the order_id of *)
(* a returned order, and every returned order has a returned item.         *)
C1_ReferentialClosure ==
    Combined =>
        /\ \A i \in 1..Len(ret.items) :
               \E j \in 1..Len(ret.orders) : ret.orders[j].order_id = ret.items[i].order_id
        /\ \A j \in 1..Len(ret.orders) :
               \E i \in 1..Len(ret.items) : ret.items[i].order_id = ret.orders[j].order_id

(* An order survived and an item of another order was removed. *)
C1_Witness ==
    /\ Combined
    /\ ret.orders # <<>>
    /\ \E k \in 1..Len(concat(arg.df_items_list)) :
           /\ ~IsNull(concat(arg.df_items_list)[k].order_id)
           /\ \A i \in 1..Len(ret.items) :
                  ret.items[i].order_id # concat(arg.df_items_list)[k].order_id

(* The first non-null customer_id among the input items of an order. *)
InputCustomerOf(batches, key) ==
    LET rows == SelectSeq(concat(batches),
                          LAMBDA r : r.order_id = key /\ ~IsNull(r.customer_id))
    IN IF rows = <<>> THEN Null ELSE rows[1].customer_id

InputOrderIds(batches) ==
    {concat(batches)[k].order_id : k \in 1..Len(concat(batches))} \ {Null}

(* C2: every order returned by the aggregator has a customer_id of the     *)
(* known-customer set; an order whose customer_id is unknown or missing is *)
(* absent from Orders, and so are its items from OrderItems.               *)
C2_OrdersOfKnownCustomers ==
    Combined =>
        /\ \A j \in 1..Len(ret.orders) :
               /\ IsStr(ret.orders[j].customer_id)
               /\ ret.orders[j].customer_id.s \in arg.cust_ids
        /\ \A key \in InputOrderIds(arg.df_items_list) :
               LET c == InputCustomerOf(arg.df_items_list, key) IN
               (IsNull(c) \/ c.s \notin arg.cust_ids) =>
                   /\ \A j \in 1..Len(ret.orders) : ret.orders[j].order_id # key
                   /\ \A i \in 1..Len(ret.items) : ret.items[i].order_id # key

Resolved ==
    \/ Returned("etl_order_items_from_reconciliation")
    \/ Returned("etl_order_items_from_unstructured")

(* C3: every row returned by either order-item resolver has a non-null     *)
(* order_id, a customer_id of the known-customer set and a product_id of   *)
(* the known-product set.                                                  *)
C3_ResolvedRowsReferenceKnownIds ==
    Resolved =>
        \A i \in 1..Len(ret) :
            /\ ~IsNull(ret[i].order_id)
            /\ IsStr(ret[i].customer_id) /\ ret[i].customer_id.s \in arg.cust_ids
            /\ IsStr(ret[i].product_id) /\ ret[i].product_id.s \in arg.prod_ids

AllDigits(s) == s # <<>> /\ \A i \in 1..Len(s) : IsDigitChar(s[i])

(* n written in decimal and zero-padded on the left to 4 digits. *)
Pad4(n) ==
    IF n < 10 THEN <<"0", "0", "0">> \o nat_to_str(n)
    ELSE IF n < 100 THEN <<"0", "0">> \o nat_to_str(n)
    ELSE IF n < 1000 THEN <<"0">> \o nat_to_str(n)
    ELSE nat_to_str(n)

(* The cleaned, uppercased string id of row i, Null when no string-id       *)
(* column is populated.                                                    *)
StringIdOf(df, i) ==
    LET x == text_cell(df, i, first_present(df.cols,
                 <<"cust_id", "customerID", "client_id", "id", "user_id">>))
        c == clean_string(x, "upper", Null)
    IN IF IsNull(c) \/ c.s = <<>> THEN Null ELSE c

(* C5: in etl_customers the canonical id of a row is CUST_ and n padded to *)
(* 4 digits when no string id is populated and the numeric id column       *)
(* parses to n, the same form for a string id that is a bare numeric       *)
(* string, and the cleaned, uppercased string id itself when it starts     *)
(* with CUST_ or is not numeric.                                           *)
C5_CanonicalCustomerId ==
    Returned("etl_customers") =>
        \A i \in 1..Len(arg.df.rows) :
            LET sid == StringIdOf(arg.df, i)
                n == source_customer_id_int_val(arg.df, i)
            IN /\ (IsNull(sid) /\ IsNum(n) /\ n.n >= 0) =>
                      ret.canon[i] = Str(CUST_ \o Pad4(n.n))
               /\ (~IsNull(sid) /\ AllDigits(sid.s)) =>
                      ret.canon[i] = Str(CUST_ \o Pad4(digits_to_nat(sid.s)))
               /\ (~IsNull(sid) /\ (startswith(sid.s, CUST_) \/ ~AllDigits(sid.s))) =>
                      ret.canon[i] = sid

(* Raw numeric id 7 with no string-id column gives CUST_0007. *)
C5_Witness ==
    /\ Returned("etl_customers")
    /\ arg.df.cols = {"customer_id", "email"}
    /\ \E i \in 1..Len(arg.df.rows) :
           arg.df.rows[i]["customer_id"] = Num(7) /\ ret.canon[i] = Str(S_CUST_0007)

IdsPresentAndUnique(rows, col) ==
    /\ \A i \in 1..Len(rows) : ~IsNull(rows[i][col]) /\ rows[i][col] # Str(<<>>)
    /\ \A i, j \in 1..Len(rows) : i # j => rows[i][col] # rows[j][col]

(* C6: every row returned by etl_customers (etl_products) has a non-null,   *)
(* non-empty customer_id (product_id) and no two returned rows share an id. *)
C6_EntityIdsPresentAndUnique ==
    /\ Returned("etl_customers") => IdsPresentAndUnique(ret.table, "customer_id")
    /\ Returned("etl_products") => IdsPresentAndUnique(ret.table, "product_id")

NonEmptyEmail(r) == IsStr(r.email) /\ strip(r.email.s) # <<>>

(* C7: no two rows returned by etl_customers carry the same non-empty      *)
(* email, and every row that survived the dedup by customer_id with a null *)
(* or empty email is in the output.  An empty batch is returned before any  *)
(* dedup, so no row of it survives one.                                    *)
C7_EmailDedup ==
    Returned("etl_customers") =>
        /\ \A i, j \in 1..Len(ret.table) :
               (i # j /\ NonEmptyEmail(ret.table[i]) /\ NonEmptyEmail(ret.table[j]))
                   => ret.table[i].email # ret.table[j].email
        /\ LET survivors == IF df_empty(arg.df) THEN <<>>
                            ELSE dedup_by_customer_id(customers_final_rows(arg.df)) IN
           \A k \in 1..Len(survivors) :
               ~NonEmptyEmail(survivors[k]) =>
                   \E i \in 1..Len(ret.table) : ret.table[i] = survivors[k]

(* The email pass removed a row and kept a row without email. *)
C7_Witness ==
    /\ Returned("etl_customers")
    /\ Len(ret.table) < Len(dedup_by_customer_id(customers_final_rows(arg.df)))
    /\ \E i \in 1..Len(ret.table) : ~NonEmptyEmail(ret.table[i])

(* C9: for every order returned by the aggregator, order_total_value_net   *)
(* is order_total_value_gross minus discount_total.                        *)
C9_NetIsGrossMinusDiscount ==
    Combined =>
        \A j \in 1..Len(ret.orders) :
            ret.orders[j].order_total_value_net =
                ret.orders[j].order_total_value_gross - ret.orders[j].discount_total

(* A returned order with a discount. *)
C9_Witness ==
    /\ Combined
    /\ \E j \in 1..Len(ret.orders) :
           ret.orders[j].discount_total > 0 /\ ret.orders[j].order_total_value_gross > 0

LineValue(v) == IF IsNum(v) THEN v.n ELSE 0

RECURSIVE SumOfOrder(_, _, _)
SumOfOrder(rows, key, col) ==
    IF rows = <<>> THEN 0
    ELSE (IF Head(rows).order_id = key THEN LineValue(Head(rows)[col]) ELSE 0)
         + SumOfOrder(Tail(rows), key, col)

(* The two items of the example: quantities 2 and 1, unit prices 10 and 5,  *)
(* discounts 0 and 1, both of order A1.                                    *)
IsExampleA1(rows) ==
    /\ Len(rows) = 2
    /\ \A k \in 1..2 : rows[k].order_id = Str(S_A1)
    /\ rows[1].quantity = Num(2) /\ rows[1].unit_price = Num(10)
    /\ rows[1].line_item_discount = Num(0)
    /\ rows[2].quantity = Num(1) /\ rows[2].unit_price = Num(5)
    /\ rows[2].line_item_discount = Num(1)

(* C10: each monetary total of an aggregated order is the sum of the line   *)
(* values of all the items of that order in all batches, a missing value   *)
(* counting as 0; a resolved line's value is quantity times unit price;    *)
(* the two example items of A1 give gross 25, discount_total 1, net 24.    *)
C10_TotalsAreSums ==
    /\ Combined =>
           LET rows == concat(arg.df_items_list) IN
           /\ \A j \in 1..Len(ret.orders) :
                  LET o == ret.orders[j] IN
                  /\ o.shipping_cost_total = SumOfOrder(rows, o.order_id, "line_item_shipping_fee")
                  /\ o.tax_total = SumOfOrder(rows, o.order_id, "line_item_tax")
                  /\ o.discount_total = SumOfOrder(rows, o.order_id, "line_item_discount")
                  /\ o.order_total_value_gross =
                         SumOfOrder(rows, o.order_id, "line_item_total_value")
                  /\ o.amount_paid_total =
                         SumOfOrder(rows, o.order_id, "line_item_amount_paid_final")
           /\ (IsExampleA1(rows) /\ ret.orders # <<>>) =>
                  /\ ret.orders[1].order_total_value_gross = 25
                  /\ ret.orders[1].discount_total = 1
                  /\ ret.orders[1].order_total_value_net = 24
    /\ Returned("etl_order_items_from_reconciliation") =>
           \A i \in 1..Len(ret) :
               IsNum(ret[i].quantity) /\ IsNum(ret[i].unit_price) =>
                   ret[i].line_item_total_value = Num(ret[i].quantity.n * ret[i].unit_price.n)

(* The example: the two items of A1 in two batches, aggregated. *)
C10_Witness ==
    /\ Combined
    /\ Len(arg.df_items_list) > 1
    /\ IsExampleA1(concat(arg.df_items_list))
    /\ Len(ret.orders) = 1
    /\ ret.orders[1].order_total_value_gross = 25
(* C13: each ETL operation given an empty input batch (no rows, or rows    *)
(* without columns) returns an empty result: etl_customers an empty table, *)
(* etl_products an empty table and an empty remap, each resolver an empty  *)
(* table, the aggregator given no batch or only empty batches an empty     *)
(* OrderItems and an empty Orders.                                         *)
C13_EmptyBatchGivesEmptyResult ==
    op = "return" =>
        /\ (arg.fn = "etl_customers" /\ (arg.df.rows = <<>> \/ arg.df.cols = {}))
               => ret.table = <<>>
        /\ (arg.fn = "etl_products" /\ (arg.df.rows = <<>> \/ arg.df.cols = {}))
               => (ret.table = <<>> /\ DOMAIN ret.remap = {})
        /\ (/\ arg.fn \in {"etl_order_items_from_reconciliation",
                            "etl_order_items_from_unstructured"}
            /\ (arg.df.rows = <<>> \/ arg.df.cols = {}))
               => ret = <<>>
        /\ (/\ arg.fn = "etl_combine_orders_and_create_orders_table"
            /\ \A i \in 1..Len(arg.df_items_list) : arg.df_items_list[i] = <<>>)
               => (ret.items = <<>> /\ ret.orders = <<>>)

(* etl_customers returned an empty table for a batch of two rows that have *)
(* no columns.                                                             *)
C13_Witness ==
    /\ Returned("etl_customers")
    /\ arg.df.cols = {}
    /\ Len(arg.df.rows) = 2
    /\ ret.table = <<>>

(* The rows of a table without the time stamp of the run. *)
WithoutTimestamp(rows) ==
    [i \in 1..Len(rows) |->
        [f \in DOMAIN rows[i] \ {"last_updated_pipeline"} |-> rows[i][f]]]

IdsOf(rows, id_column) == {rows[i][id_column] : i \in 1..Len(rows)}

VocabularyOf(attribute) ==
    CASE attribute = "gender" -> GENDER_MAP
      [] attribute = "status" -> CUSTOMER_STATUS_MAP
      [] attribute = "payment_status" -> PAYMENT_STATUS_MAP
      [] attribute = "delivery_status" -> ORDER_DELIVERY_STATUS_MAP
      [] attribute = "state" -> STATE_ABBREVIATION_MAP
      [] attribute = "city" -> CITY_NORMALIZATION_MAP

(* A raw value that, trimmed and in upper case, is no key of the table. *)
MissesVocabulary(attribute, value) ==
    /\ ~IsNull(value)
    /\ str_upper(strip(py_str(value))) \notin DOMAIN VocabularyOf(attribute)

(* C15: for gender, customer status, payment status, delivery status, US   *)
(* state and city, a value that is not a key of the attribute's vocabulary *)
(* table after case normalization yields the label UNKNOWN, never the raw  *)
(* value or a re-cased form of it.                                         *)
C15_MissYieldsUnknown ==
    /\ Returned("standardize_categorical") =>
           (MissesVocabulary(arg.attribute, arg.value)
               => ret = Str(DEFAULT_UNKNOWN_CATEGORICAL))
    /\ Returned("etl_customers_categoricals") =>
           \A attribute \in {"gender", "status", "state", "city"} :
               MissesVocabulary(attribute, arg.value)
                   => ret[attribute] = Str(DEFAULT_UNKNOWN_CATEGORICAL)

(* The digits of a raw text, in order. *)
DigitsIn(value) == SelectSeq(py_str(value), LAMBDA c : c \in {DigitChars[i] : i \in 1..10})

(* C16: standardize_phone_strict strips every non-digit; 10 digits are     *)
(* formatted (xxx) xxx-xxxx, 11 digits beginning with 1 are formatted      *)
(* +1 (xxx) xxx-xxxx, any other 7 to 15 digits are returned as the bare    *)
(* digit string, and every other input returns the default.                *)
C16_PhoneFormats ==
    (Returned("standardize_phone_strict") /\ ~IsNull(arg.value)) =>
        LET d == DigitsIn(arg.value)
            n == Len(d)
        IN ret = IF n = 10
                 THEN Str(<<"(", d[1], d[2], d[3], ")", " ", d[4], d[5], d[6], "-",
                            d[7], d[8], d[9], d[10]>>)
                 ELSE IF n = 11 /\ d[1] = "1"
                 THEN Str(<<"+", "1", " ", "(", d[2], d[3], d[4], ")", " ", d[5], d[6], d[7],
                            "-", d[8], d[9], d[10], d[11]>>)
                 ELSE IF n >= 7 /\ n <= 15 THEN Str(d)
                 ELSE arg.default

(* C17: standardize_postal_code maps "12345-6789" to "12345", maps the     *)
(* float-like "12345.0" to "12345", and maps "1234" to the default or,     *)
(* where the passthrough of digit-bearing strings applies, to "1234".      *)
C17_PostalExamples ==
    (Returned("standardize_postal_code") /\ arg.country = "US") =>
        /\ arg.value = Str(<<"1", "2", "3", "4", "5", "-", "6", "7", "8", "9">>) => ret = Str(<<"1", "2", "3", "4", "5">>)
        /\ arg.value = Str(<<"1", "2", "3", "4", "5", ".", "0">>) => ret = Str(<<"1", "2", "3", "4", "5">>)
        /\ arg.value = Str(<<"1", "2", "3", "4">>) => ret \in {arg.default, Str(<<"1", "2", "3", "4">>)}

(* C18: no field normalizer (clean_string, to_numeric_safe,                *)
(* standardize_boolean_strict, standardize_phone_strict,                   *)
(* standardize_postal_code) raises for a scalar input, be it empty, NA,    *)
(* non-numeric text, or a number or numeric text that is infinite or out   *)
(* of range; to_numeric_safe returns the caller's default for such a       *)
(* number.                                                                 *)
C18_NormalizersNeverRaise ==
    /\ (op = "return" /\ arg.fn \in {"clean_string", "to_numeric_safe",
                                     "standardize_boolean_strict",
                                     "standardize_phone_strict", "standardize_postal_code"})
           => ~IsRaised(ret)
    /\ (/\ Returned("to_numeric_safe")
        /\ arg.target_type = "int"
        /\ arg.value \in {Inf, Str(<<"i", "n", "f">>), Str(<<"1", "e", "9", "9", "9">>)})
           => ret = arg.default

(* C19: every failure of the AI suggestion service (no key, configuration  *)
(* error, API error, blocked response, response that is not valid JSON)    *)
(* makes get_ai_schema_mapping_suggestions return null without raising,    *)
(* and a value it returns that is not null is a mapping.                   *)
AiCallReturned == op = "return" /\ arg.fn = "get_ai_schema_mapping_suggestions"

AiServiceFailed ==
    \/ IsNull(configure_gemini(arg.gemini_model, arg.env))
    \/ arg.api.kind \in {"raises", "blocked"}
    \/ IsRaised(json_loads(extract_json_str(arg.api.text)))

C19_AiFailureGivesNoSuggestion ==
    AiCallReturned =>
        /\ AiServiceFailed => IsNull(ret.value)
        /\ ~IsRaised(ret.value)
        /\ IsNull(ret.value) \/ IsMapping(ret.value)

(* The three steps of the product reference resolution as the claim C21    *)
(* states them: the cleaned reference if known, else the remap of its      *)
(* numeric remainder, else the numeric remainder if known, else nothing.   *)
ThreeStepProduct(reference, remap, known) ==
    LET cleaned == IF IsNull(reference) THEN Null
                   ELSE clean_string(Str(py_str(reference)), "upper", Null)
        remainder == IF IsNull(cleaned) THEN <<>>
                     ELSE IF startswith(cleaned.s, ITM_)
                     THEN SubSeq(cleaned.s, Len(ITM_) + 1, Len(cleaned.s))
                     ELSE cleaned.s
    IN IF IsNull(cleaned) \/ cleaned.s = <<>> THEN Null
       ELSE IF cleaned.s \in known THEN cleaned
       ELSE IF isdigit(remainder) /\ remainder \in DOMAIN remap THEN Str(remap[remainder])
       ELSE IF isdigit(remainder) /\ remainder \in known THEN Str(remainder)
       ELSE Null

(* The product reference of input row i: the item_reference of a          *)
(* reconciliation line; the product_id of an unstructured line, or its     *)
(* item_id when it has no product_id.                                      *)
ProductReference(fn, df, i) ==
    IF fn = "etl_order_items_from_reconciliation" THEN text_cell(df, i, "item_reference")
    ELSE IF ~IsNull(text_cell(df, i, "product_id")) THEN text_cell(df, i, "product_id")
    ELSE cell(df, i, "item_id")

(* Order and customer of input row i are resolved, so that only its        *)
(* product decides whether the row is kept.                                *)
OrderAndCustomerResolved(fn, df, i) ==
    IF fn = "etl_order_items_from_reconciliation"
    THEN has_key_ids_without_product(recon_row(df, i, arg.cust_ids, arg.prod_ids, arg.prod_map))
    ELSE LET r == unstructured_row(df, i, arg.cust_ids, arg.prod_ids, arg.prod_map)
         IN has_key_ids_without_product(r) /\ isin(r.customer_id, arg.cust_ids)

ResolverReturned ==
    op = "return" /\ arg.fn \in {"etl_order_items_from_reconciliation",
                                 "etl_order_items_from_unstructured"}

(* C21: in both resolvers the product of a line is the result of the three *)
(* steps in their order: every returned row carries the product the steps  *)
(* give for its reference, and a line whose order and customer resolved is *)
(* returned when the steps give a known product for its reference.         *)
C21_ProductResolutionSteps ==
    (ResolverReturned /\ ~df_empty(arg.df)) =>
        /\ \A k \in 1..Len(ret) :
               ret[k].product_id =
                   ThreeStepProduct(ProductReference(arg.fn, arg.df, ret[k].line + 1),
                                    arg.prod_map, arg.prod_ids)
        /\ \A i \in 1..Len(arg.df.rows) :
               LET product == ThreeStepProduct(ProductReference(arg.fn, arg.df, i),
                                               arg.prod_map, arg.prod_ids)
               IN (OrderAndCustomerResolved(arg.fn, arg.df, i) /\ isin(product, arg.prod_ids))
                      => \E k \in 1..Len(ret) : ret[k].line = i - 1

(* The line total the source supplied for input row i, as a number. *)
SuppliedTotal(fn, df, i) ==
    IF fn = "etl_order_items_from_reconciliation"
    THEN numeric_col(df, i, "total_value", "float", Null)
    ELSE numeric_col(df, i, "total_amount", "float", Null)

(* Every key id of input row i is resolved to a known id. *)
AllKeysResolved(fn, df, i) ==
    IF fn = "etl_order_items_from_reconciliation"
    THEN has_key_ids(recon_row(df, i, arg.cust_ids, arg.prod_ids, arg.prod_map))
    ELSE LET r == unstructured_row(df, i, arg.cust_ids, arg.prod_ids, arg.prod_map)
         IN has_key_ids(r) /\ isin(r.customer_id, arg.cust_ids)
                           /\ isin(r.product_id, arg.prod_ids)

(* C22: in both resolvers a line whose supplied total differs from         *)
(* quantity times unit_price is kept when its ids resolve, and its         *)
(* line_item_total_value is the computed quantity times unit_price.        *)
C22_ComputedTotalIsAuthoritative ==
    (ResolverReturned /\ ~df_empty(arg.df)) =>
        /\ \A i \in 1..Len(arg.df.rows) :
               AllKeysResolved(arg.fn, arg.df, i) => \E k \in 1..Len(ret) : ret[k].line = i - 1
        /\ \A k \in 1..Len(ret) :
               LET supplied == SuppliedTotal(arg.fn, arg.df, ret[k].line + 1)
                   computed == num_mul(ret[k].quantity, ret[k].unit_price)
               IN (IsNum(supplied) /\ IsNum(computed) /\ supplied # computed)
                      => ret[k].line_item_total_value = computed

(* The cleaned, uppercased value of the first alias column, in the order   *)
(* of names, that is non-empty for row i.                                  *)
RECURSIVE FirstNonEmptyAlias(_, _, _)
FirstNonEmptyAlias(df, i, names) ==
    IF names = <<>> THEN Null
    ELSE LET x == IF Head(names) \in df.cols THEN text_cell(df, i, Head(names)) ELSE Null
             cleaned == IF IsNull(x) THEN Null ELSE clean_string(x, "upper", Null)
         IN IF ~IsNull(cleaned) /\ strip(cleaned.s) # <<>> THEN cleaned
            ELSE FirstNonEmptyAlias(df, i, Tail(names))

(* C23: the canonical id of a customer row is derived per row from the     *)
(* first string-id alias column, in the fixed precedence order, that is    *)
(* non-empty for that row: a row whose higher alias is present in the      *)
(* batch but empty uses the next alias.                                    *)
C23_AliasChosenPerRow ==
    (Returned("etl_customers") /\ ~df_empty(arg.df)) =>
        \A i \in 1..Len(arg.df.rows) :
            ret.canon[i] =
                create_canonical_customer_id(
                    FirstNonEmptyAlias(arg.df, i,
                        <<"cust_id", "customerID", "client_id", "id", "user_id">>),
                    source_customer_id_int_val(arg.df, i), i - 1)

(* C24: the order_status of an order is the most frequent status of its   *)
(* items, and among equally frequent statuses the one that comes first in  *)
(* the items' input order.                                                 *)
C24_StatusModeFirstEncountered ==
    Returned("order_status") =>
        /\ \A k \in 1..Len(arg.x) : count_of(arg.x, arg.x[k]) <= count_of(arg.x, ret)
        /\ \E i \in 1..Len(arg.x) :
               /\ arg.x[i] = ret
               /\ \A j \in 1..(i - 1) : count_of(arg.x, arg.x[j]) < count_of(arg.x, ret)

(* Row i has neither a usable string id nor a numeric id. *)
HasNoSourceId(df, i) ==
    LET pre_canon_id == customer_id_canon_pre(df, i)
    IN /\ IsNull(pre_canon_id) \/ strip(pre_canon_id.s) = <<>>
       /\ IsNull(source_customer_id_int_val(df, i))

(* C26: in etl_customers a row with neither a usable string id nor a       *)
(* numeric id gets the placeholder CUST_UNKNOWN_<row index>, which differs *)
(* from the canonical id of every other row of the batch, so that the row  *)
(* is still there after the dedup on customer_id.                          *)
C26_PlaceholderIdUniqueInBatch ==
    (Returned("etl_customers") /\ ~df_empty(arg.df)) =>
        \A i \in 1..Len(arg.df.rows) :
            HasNoSourceId(arg.df, i) =>
                /\ ret.canon[i] = Str(CUST_UNKNOWN_ \o int_to_str(i - 1))
                /\ \A j \in 1..Len(arg.df.rows) : j # i => ret.canon[j] # ret.canon[i]
                /\ LET survivors == dedup_by_customer_id(customers_final_rows(arg.df))
                   IN Cardinality({k \in 1..Len(survivors) :
                                      survivors[k].customer_id = ret.canon[i]}) = 1

(* The age the source supplies for the row, as an integer. *)
SuppliedAge == IF arg.has_age_column THEN to_numeric_safe(arg.age, "int", Null) ELSE Null

(* C27: the output age is the age the source supplies whenever it supplies *)
(* one; it is computed from the birth date (whole years, one less before   *)
(* the birthday of the year) only for a row whose age is absent.           *)
C27_SuppliedAgeWins ==
    Returned("age_final") =>
        IF IsNum(SuppliedAge) THEN ret = SuppliedAge
        ELSE ret = calculate_age(arg.birth_date_final, arg.today)

(* Row i of a product batch has no usable string product id but an item   *)
(* id that parses to an integer.                                           *)
HasOnlyNumericItemId(df, i) ==
    /\ ~df_empty(df)
    /\ IsNull(product_id_canon(df, i))
    /\ IsNum(source_item_id_int_val(df, i))

(* C28: a product row with no usable string product id but a numeric item  *)
(* id is given a product_id minted from that number: it is in the output   *)
(* table and its number is a key of the id-remap table.                    *)
C28_NumericItemIdMintsProductId ==
    Returned("etl_products") =>
        \A i \in 1..Len(arg.df.rows) :
            HasOnlyNumericItemId(arg.df, i) =>
                /\ \E j \in 1..Len(ret.table) :
                       /\ ret.table[j].source_item_id_int = source_item_id_int_val(arg.df, i)
                       /\ ~IsNull(ret.table[j].product_id)
                /\ py_str(source_item_id_int_val(arg.df, i)) \in DOMAIN ret.remap

(***************************************************************************)
(* Properties of the runner (specification SpecRunner).                    *)
(***************************************************************************)
OrderFileRun == Returned("process_and_load_order_file")

ReconFileRun == OrderFileRun /\ arg.entity_type = "order_items_reconciliation"

(* The ids the customers ETL has minted so far. *)
MintedCustomerIds == {Customers[i].customer_id : i \in 1..Len(Customers)}

(* The digits of a cleaned reference CLI_<digits>, <<>> for another text. *)
CliDigits(ref) ==
    LET c == clean_string(ref, "upper", Null) IN
    IF ~IsNull(c) /\ startswith(c.s, CLI_) /\ AllDigits(SubSeq(c.s, 5, Len(c.s)))
    THEN SubSeq(c.s, 5, Len(c.s))
    ELSE <<>>

(* C4: once the customers ETL has minted CUST_ and n padded to 4 digits    *)
(* and that id is known, the reconciliation resolver resolves a row whose  *)
(* customer reference is CLI_n to that id and keeps the row (its order and *)
(* product references being resolvable).                                   *)
C4_CliReferenceResolves ==
    ReconFileRun =>
        \A i \in 1..Len(arg.df.rows) :
            LET digits == CliDigits(arg.df.rows[i]["client_reference"])
                minted == CUST_ \o Pad4(digits_to_nat(digits))
            IN (/\ digits # <<>>
                /\ Str(minted) \in MintedCustomerIds
                /\ minted \in ret.ids.cust_ids
                /\ ~IsNull(recon_order_id(arg.df, i))
                /\ ~IsNull(map_recon_product_id_corrected(text_cell(arg.df, i, "item_reference"),
                                                          ret.ids.prod_map, ret.ids.prod_ids)))
               => \E k \in 1..Len(ret.df_items) :
                      /\ ret.df_items[k].line = i - 1
                      /\ ret.df_items[k].customer_id = Str(minted)

(* The product id the resolver of the file's type gives row i, for the      *)
(* ids in force when the file was processed.                               *)
ResolvedProductOf(entity_type, df, i, ids) ==
    IF entity_type = "order_items_reconciliation"
    THEN map_recon_product_id_corrected(text_cell(df, i, "item_reference"),
                                        ids.prod_map, ids.prod_ids)
    ELSE resolve_unstructured_product_id(text_cell(df, i, "product_id"),
                                         cell(df, i, "item_id"),
                                         ids.prod_map, ids.prod_ids)

NoKnownProduct(entity_type, df, i, ids) ==
    ~isin(ResolvedProductOf(entity_type, df, i, ids), ids.prod_ids)

(* The file without the rows whose product reference resolves to nothing. *)
WithoutUnresolvedProducts(entity_type, df, ids) ==
    LET keep == {i \in 1..Len(df.rows) : ~NoKnownProduct(entity_type, df, i, ids)}
        pos(k) == CHOOSE i \in keep : Cardinality({j \in keep : j < i}) = k - 1
    IN [cols |-> df.cols, rows |-> [k \in 1..Cardinality(keep) |-> df.rows[pos(k)]]]

OrdersOfFile(entity_type, df, ids) ==
    LET df_items == order_items_of(entity_type, df, ids) IN
    IF df_items = <<>> THEN <<>>
    ELSE etl_combine_orders_and_create_orders_table(<<df_items>>, ids.cust_ids).orders

KnownProductIds == {py_str(Products[i].product_id) : i \in 1..Len(Products)}

(* C8: across resolver and aggregator, an item whose product reference     *)
(* resolves to no known product is not in the final OrderItems, the orders *)
(* are those of the file without that item, and an order made only of such *)
(* items is not in Orders; every stored item names a known product.        *)
C8_UnresolvedProductsLeaveNoTrace ==
    /\ \A k \in 1..Len(OrderItems) : isin(OrderItems[k].product_id, KnownProductIds)
    /\ OrderFileRun =>
        LET df == arg.df
            unresolved == {i \in 1..Len(df.rows) :
                              NoKnownProduct(arg.entity_type, df, i, ret.ids)}
        IN /\ \A i \in unresolved, k \in 1..Len(ret.items) : ret.items[k].line # i - 1
           /\ ret.orders =
                  OrdersOfFile(arg.entity_type,
                               WithoutUnresolvedProducts(arg.entity_type, df, ret.ids),
                               ret.ids)
           /\ \A i \in unresolved :
                  LET order_id == IF arg.entity_type = "order_items_reconciliation"
                                  THEN recon_order_id(df, i)
                                  ELSE unstructured_order_id(df, i)
                  IN (\A j \in 1..Len(df.rows) :
                          (IF arg.entity_type = "order_items_reconciliation"
                           THEN recon_order_id(df, j)
                           ELSE unstructured_order_id(df, j)) = order_id
                          => j \in unresolved)
                     => \A k \in 1..Len(ret.orders) : ret.orders[k].order_id # order_id

(* An order kept one item and lost another whose product is unknown. *)
C8_Witness ==
    /\ OrderFileRun
    /\ ret.orders # <<>>
    /\ \E i \in 1..Len(arg.df.rows) : NoKnownProduct(arg.entity_type, arg.df, i, ret.ids)
    /\ Len(ret.items) < Len(arg.df.rows)

(* C11: the resolution of an order file begins only after a customers file *)
(* and a products file have been processed to completion, so that the id   *)
(* sets it is resolved against were taken after both stages.               *)
C11_ResolutionAfterEntityStages ==
    OrderFileRun => {"customer", "product"} \subseteq ret.completed_before

(* C12: a file whose raw data could be read never ends with the status     *)
(* error_processing: the only failure of the runs modelled here is a raw   *)
(* file that is missing or unreadable, which load_single_raw_data turns    *)
(* into an empty frame.                                                    *)
C12_DirtyDataNeverFails ==
    (op = "return" /\ ret.status = "error_processing") => df_empty(arg.df)

(* Every row of the table has in the column an id that the referenced     *)
(* table holds in its column (ids are TEXT in the store).                  *)
References(table, column, referenced) ==
    \A i \in 1..Len(table) :
        /\ ~IsNull(table[i][column])
        /\ py_str(table[i][column]) \in fetch_distinct_business_entity_ids(referenced, column)

(* C29: after any sequence of per-file runs every Orders row of the store  *)
(* has a customer_id present in Customers, and every OrderItems row has an *)
(* order_id present in Orders and a product_id present in Products.        *)
C29_StoreReferentialIntegrity ==
    /\ References(Orders, "customer_id", Customers)
    /\ References(OrderItems, "order_id", Orders)
    /\ References(OrderItems, "product_id", Products)

(* Two order files were loaded, and the one just processed lost a row. *)
C29_Witness ==
    /\ OrderFileRun
    /\ Len(Orders) >= 2 /\ Len(OrderItems) >= 2
    /\ ret.items # <<>>
    /\ Len(ret.items) < Len(arg.df.rows)

(***************************************************************************)
(* Two pipeline runs against the one database of DB_ENGINE_URL.  Every     *)
(* statement that reads or writes a table is a step of its run, and the    *)
(* steps of the runs interleave.  op[r] is where run r stands, arg[r] the  *)
(* file it was started on and ret[r] what it has read and computed so far. *)
(***************************************************************************)
Runs == {1, 2}
MaxStarts == 4

InFlight == {"tables_created", "cust_ids", "prod_ids", "resolved", "orders_loaded"}

ConcurrentOrderFiles ==
    {[entity_type |-> "order_items_reconciliation",
      df |-> [cols |-> ReconCols, rows |-> <<Recon_A1_first, Recon_A1_ZZ>>]],
     [entity_type |-> "order_items_unstructured",
      df |-> [cols |-> UnstructuredCols, rows |-> <<Unstructured_A1_item, Unstructured_A1_ZZ>>]]}

InitConcurrent ==
    /\ op = [r \in Runs |-> "idle"]
    /\ arg = [r \in Runs |-> Null]
    /\ ret = [r \in Runs |-> Null]
    /\ EmptyStore

CanStart(r) == op[r] \notin InFlight /\ processed < MaxStarts

(* The setdefault loop of lines 24-25 over the ids read at line 17, after  *)
(* the query of lines 20-23 against the Products table as it is then.      *)
product_id_map_from(products, existing_product_ids) ==
    LET by_item == product_id_map_for_orders(products, Len(products))
    IN [x \in DOMAIN by_item \cup existing_product_ids |->
           IF x \in DOMAIN by_item THEN by_item[x] ELSE x]

concurrent_customer_file(r) ==
    /\ CanStart(r)
    /\ \E df_raw \in CustomerFiles :
        LET df_cleaned == etl_customers(df_raw) IN
        /\ arg' = [arg EXCEPT ![r] = [fn |-> "process_and_load_customer_file", df |-> df_raw]]
        /\ ret' = [ret EXCEPT ![r] = [success |-> df_cleaned # <<>>, table |-> df_cleaned]]
        /\ Customers' = Customers \o df_cleaned
    /\ op' = [op EXCEPT ![r] = "return"]
    /\ processed' = processed + 1
    /\ completed' = completed \cup {"customer"}
    /\ UNCHANGED <<Products, Orders, OrderItems, SourceFileRegistry>>

concurrent_product_file(r) ==
    /\ CanStart(r)
    /\ \E df_raw \in ProductFiles :
        LET df_cleaned == etl_products(df_raw).table IN
        /\ arg' = [arg EXCEPT ![r] = [fn |-> "process_and_load_product_file", df |-> df_raw]]
        /\ ret' = [ret EXCEPT ![r] = [success |-> df_cleaned # <<>>, table |-> df_cleaned]]
        /\ Products' = Products \o df_cleaned
    /\ op' = [op EXCEPT ![r] = "return"]
    /\ processed' = processed + 1
    /\ completed' = completed \cup {"product"}
    /\ UNCHANGED <<Customers, Orders, OrderItems, SourceFileRegistry>>

(* Line 16 of etl_runner: the first read of an order file run.  The run    *)
(* remembers the tables as they are at this moment, which is what it would *)
(* read throughout if no other run wrote to them.                          *)
order_file_fetch_customer_ids(r) ==
    /\ CanStart(r)
    /\ \E file \in ConcurrentOrderFiles :
        arg' = [arg EXCEPT ![r] = [fn |-> "process_and_load_order_file",
                                   entity_type |-> file.entity_type, df |-> file.df]]
    /\ ret' = [ret EXCEPT ![r] =
                  [at_start |-> [Customers |-> Customers, Products |-> Products],
                   cust_ids |-> fetch_distinct_business_entity_ids(Customers, "customer_id"),
                   prod_ids |-> {}, prod_map |-> EmptyDict,
                   orders |-> <<>>, items |-> <<>>, stored |-> {}, success |-> FALSE]]
    /\ op' = [op EXCEPT ![r] = "cust_ids"]
    /\ processed' = processed + 1
    /\ UNCHANGED <<Customers, Products, Orders, OrderItems, completed, SourceFileRegistry>>

(* Line 17. *)
order_file_fetch_product_ids(r) ==
    /\ op[r] = "cust_ids"
    /\ ret' = [ret EXCEPT ![r].prod_ids =
                  fetch_distinct_business_entity_ids(Products, "product_id")]
    /\ op' = [op EXCEPT ![r] = "prod_ids"]
    /\ UNCHANGED <<arg, store>>

(* Lines 20-25 of generate_current_id_maps_from_db, then lines 58-68 of    *)
(* process_and_load_order_file, which touch no table.                      *)
order_file_resolve(r) ==
    /\ op[r] = "prod_ids"
    /\ LET prod_map == product_id_map_from(Products, ret[r].prod_ids)
           ids == [cust_ids |-> ret[r].cust_ids, prod_ids |-> ret[r].prod_ids,
                   prod_map |-> prod_map]
           df_items == order_items_of(arg[r].entity_type, arg[r].df, ids)
           final == IF df_items = <<>> THEN [items |-> <<>>, orders |-> <<>>]
                    ELSE etl_combine_orders_and_create_orders_table(<<df_items>>, ids.cust_ids)
       IN /\ ret' = [ret EXCEPT ![r].prod_map = prod_map, ![r].orders = final.orders,
                                ![r].items = final.items, ![r].success = df_items # <<>>]
          /\ op' = [op EXCEPT ![r] = IF df_items = <<>> THEN "return" ELSE "resolved"]
    /\ UNCHANGED <<arg, store>>

(* Line 69: to_sql appends the orders and commits.  ret[r].stored names    *)
(* the tables the run has appended its rows to.                            *)
order_file_load_orders(r) ==
    /\ op[r] = "resolved"
    /\ Orders' = Orders \o ret[r].orders
    /\ ret' = [ret EXCEPT ![r].stored = IF ret[r].orders = <<>> THEN @ ELSE @ \cup {"Orders"}]
    /\ op' = [op EXCEPT ![r] = "orders_loaded"]
    /\ UNCHANGED <<arg, Customers, Products, OrderItems, processed, completed, SourceFileRegistry>>

(* Line 69 when load_df_to_db raises (lines 188-197 re-raise what to_sql   *)
(* raised): nothing is written and line 72 returns the failure.            *)
order_file_load_orders_raises(r) ==
    /\ op[r] = "resolved"
    /\ ret' = [ret EXCEPT ![r].success = FALSE]
    /\ op' = [op EXCEPT ![r] = "return"]
    /\ UNCHANGED <<arg, store>>

(* Line 70 and the return of line 71. *)
order_file_load_order_items(r) ==
    /\ op[r] = "orders_loaded"
    /\ OrderItems' = OrderItems \o ret[r].items
    /\ ret' = [ret EXCEPT ![r].stored = IF ret[r].items = <<>> THEN @ ELSE @ \cup {"OrderItems"}]
    /\ op' = [op EXCEPT ![r] = "return"]
    /\ completed' = completed \cup {"order"}
    /\ UNCHANGED <<arg, Customers, Products, Orders, processed, SourceFileRegistry>>

(* Line 70 when load_df_to_db raises: the orders of line 69 are already    *)
(* committed, and line 72 returns the failure.                             *)
order_file_load_order_items_raises(r) ==
    /\ op[r] = "orders_loaded"
    /\ ret' = [ret EXCEPT ![r].success = FALSE]
    /\ op' = [op EXCEPT ![r] = "return"]
    /\ UNCHANGED <<arg, store>>

(* Line 65 of main_etl: create_tables drops and re-creates every table. *)
full_run_create_tables(r) ==
    /\ CanStart(r)
    /\ arg' = [arg EXCEPT ![r] = [fn |-> "run_full_etl_pipeline"]]
    /\ ret' = [ret EXCEPT ![r] = Null]
    /\ Customers' = <<>> /\ Products' = <<>> /\ Orders' = <<>> /\ OrderItems' = <<>>
    /\ op' = [op EXCEPT ![r] = "tables_created"]
    /\ SourceFileRegistry' = <<>>
    /\ processed' = processed + 1
    /\ UNCHANGED completed

(* Line 74 of main_etl: etl_customers is called with one argument and      *)
(* requires two, so the run ends here with a TypeError.                    *)
full_run_etl_customers(r) ==
    /\ op[r] = "tables_created"
    /\ ret' = [ret EXCEPT ![r] = Raised("TypeError")]
    /\ op' = [op EXCEPT ![r] = "raised"]
    /\ UNCHANGED <<arg, store>>

NextConcurrent ==
    \E r \in Runs :
        \/ concurrent_customer_file(r)
        \/ concurrent_product_file(r)
        \/ order_file_fetch_customer_ids(r)
        \/ order_file_fetch_product_ids(r)
        \/ order_file_resolve(r)
        \/ order_file_load_orders(r)
        \/ order_file_load_orders_raises(r)
        \/ order_file_load_order_items(r)
        \/ order_file_load_order_items_raises(r)
        \/ full_run_create_tables(r)
        \/ full_run_etl_customers(r)

SpecConcurrent == InitConcurrent /\ [][NextConcurrent]_vars

(***************************************************************************)
(* Properties of concurrent runs (specification SpecConcurrent).           *)
(***************************************************************************)
(* The id sets run r holds are the ones the tables it started on give. *)
IdsAsIfAlone(r) ==
    LET alone == generate_current_id_maps_from_db(ret[r].at_start.Customers,
                                                  ret[r].at_start.Products)
    IN /\ ret[r].cust_ids = alone.cust_ids
       /\ op[r] # "cust_ids" => ret[r].prod_ids = alone.prod_ids
       /\ op[r] \in {"resolved", "orders_loaded"} => ret[r].prod_map = alone.prod_map

(* The orders run r appended at line 69 are rows of the Orders table. *)
LoadedOrdersKept(r) ==
    \A i \in 1..Len(ret[r].orders) : \E j \in 1..Len(Orders) : Orders[j] = ret[r].orders[i]

(* C20: concurrent runs share no mutable state.  While an order file run   *)
(* is between its first read and its return, the known ids it holds are    *)
(* those it would have read had it run alone, and the orders it has loaded *)
(* are still in the table: no step of another run, the table re-creation   *)
(* of a full run included, changed what it reads or removed what it wrote. *)
C20_ConcurrentRunsShareNoState ==
    \A r \in Runs :
        /\ op[r] \in {"cust_ids", "prod_ids", "resolved", "orders_loaded"} => IdsAsIfAlone(r)
        /\ op[r] = "orders_loaded" => LoadedOrdersKept(r)

(* C25: loading one order batch is all-or-nothing.  When                   *)
(* process_and_load_order_file has ended, with success or with failure,    *)
(* the run has appended both the batch's Orders rows and its OrderItems    *)
(* rows or neither of them.                                                *)
C25_OrderBatchLoadIsAtomic ==
    \A r \in Runs :
        (op[r] = "return" /\ arg[r].fn = "process_and_load_order_file")
            => ret[r].stored \in {{}, {"Orders", "OrderItems"}}
====
